---- MODULE Spec2Model ----
(***************************************************************************)
(* decktool (joeblew999/deck-test): a model of the command-line tool's     *)
(* orchestration logic.  The tool shells out to git, the go toolchain, the *)
(* gh release CLI and the deck binaries; every external process is an      *)
(* environment step whose outcome (success or failure) is chosen           *)
(* nondeterministically, and the tool's reaction to it is the code's.      *)
(*                                                                         *)
(* Sub-systems, each with its own specification over the shared state:     *)
(*   SpecBuild     buildBinary / buildAll            (build.go)            *)
(*   SpecExamples  runExamples                       (examples.go)         *)
(*   SpecFetch     downloadReleaseBinaries           (binaries.go)         *)
(*   SpecSync      ensureRepos / ensureBuildRepos    (repos.go)            *)
(***************************************************************************)
EXTENDS Integers, Sequences, FiniteSets, TLC

VARIABLES
    \* ---- configuration and host (shared) ----
    toolchain,      \* cfg.toolchain: sequence of binSpec
    host,           \* runtime.GOOS / runtime.GOARCH
    \* ---- filesystem: the dist directory (shared by build and fetch) ----
    distExists,     \* cfg.distDir exists on disk
    dist,           \* file name -> [mtime, exec] for the files present in dist
    \* ---- buildAll ----
    bPc,            \* "idle" | "loop" | "done"
    bI, bJ,         \* loop indices: binary (outer), target (inner)
    results,        \* []buildResult collected so far
    bErr,           \* the error buildAll returned ("unset" until it returns)
    bTrace,         \* per buildBinary call: what it did on the host
    bFaults,        \* environment faults injected so far
    \* ---- downloadReleaseBinaries ----
    fPc,            \* "idle" | "list" | "view" | "loop" | "done"
    fI,             \* loop index into cfg.toolchain
    fErr,           \* the error returned ("unset" until it returns)
    ghOnPath,       \* exec.LookPath("gh") succeeds
    ghLog,          \* the commands issued so far, in order, with their outcome
    releaseTag,     \* tag parsed from the listing
    releaseTime,    \* parsed release time; ZeroTime when none was obtained
    listOut,        \* stdout of `gh release list`: [ran, out]
    fDownloaded,    \* downloaded counter
    fSkipped,       \* skipped counter
    fTrace,         \* per loop iteration: what was found and what was done
    \* ---- ensureRepos / ensureBuildRepos ----
    repos,          \* cfg.repos: name -> repoConfig (after finalize)
    disk,           \* name -> the local clone: [git, content, origin, sparse]
    sPc,            \* "idle" | "range" | "git" | "done"
    sMode,          \* "data" (ensureRepos) | "code" (ensureBuildRepos)
    sTodo,          \* repositories the range loop has not reached yet
    sRepo,          \* repository being synchronized
    sPlan,          \* git commands gitClone / gitUpdate still has to run
    sErr,           \* the error returned ("unset" until it returns)
    gitLog,         \* git commands issued in this run, with their outcome
    sHadGit,        \* name -> what os.Stat(dir/.git) found in this run
    sRun,           \* number of the run (runs follow each other)
    sPrev,          \* outcome and disk contents at the end of the previous run
    \* ---- runExamples ----
    examples,       \* the argument: a list of raw references (token sequences)
    ePc,            \* "idle" | "loop" | "lint" | "render" | "done"
    eI,             \* index of the reference the range loop is at
    eCur,           \* source, name and dir of the reference being processed
    eResults,       \* the local map: normalized reference -> xml path
    eRet,           \* what runExamples returned: [nil, results, err]
    env,            \* the process's DECKFONTS variable: [set, val]
    eOld,           \* oldDeckfonts
    eLog,           \* child processes run so far, with the DECKFONTS each saw
    eTrace,         \* per reference reached: what became of it
    files,          \* paths that exist below the data repositories
    onPath,         \* tool names exec.LookPath finds
    inGoBin,        \* tool names present in cfg.goBinDir
    \* ---- ensureWorkspace ----
    wPc,            \* "idle" | "range" | "write" | "done"
    wTodo,          \* repositories the range loop has not reached yet
    wDirs,          \* dirs: the use entries collected so far
    wErr,           \* the error returned ("unset" until it returns)
    srcDirExists,   \* the .src directory exists
    goWork,         \* .src/go.work: [exists, header, uses]
    \* ---- root command: PersistentPreRunE (finalize), then the subcommand ----
    finPc,          \* "loaded" | "range" | "rest" | "ok" | "failed" | "body" | "exited"
    finTodo,        \* repositories the range loop of finalize has not reached
    finErr,         \* the error finalize returned ("unset" until it returns)
    dirs,           \* name -> repo.dir as a path [abs, elems]
    lists,          \* name -> [filterRaw, sparseRaw, filter, sparse]
    distDirCfg,     \* cfg.distDir as a path
    fontsDirCfg,    \* cfg.fontsDir as a path
    cwdOk,          \* os.Getwd succeeds
    ranCmd,         \* the subcommand whose RunE was entered ("" if none)
    \* ---- dev-build, dev-release, createGithubRelease ----
    dPc,            \* position in the RunE of the command
    dCmd,           \* "" | "dev-build" | "dev-release"
    dVariant,       \* dev-release publishes through createGithubRelease
                    \* ("helper") or in its own body ("inline")
    dFlags,         \* --skip-build, --version, --prerelease as given
    dRel,           \* version and prerelease after the defaulting
    dCounts,        \* successCount, failCount, skipCount
    dErr,           \* the error RunE returned ("unset" until it returns)
    relLog,         \* gh commands of the publish path, in order
    \* ---- the other subcommands ----
    cPc,            \* position in the RunE of the command
    cCmd,           \* "" or the name of the subcommand
    cErr,           \* the error RunE returned ("unset" until it returns)
    listed,         \* the lines the examples command printed, in order
    \* ---- dev-clean ----
    present,        \* the directories that exist, of those dev-clean can meet
    cVariant,       \* dev-clean removes the four constant folders
                    \* ("constants") or cfg's directories ("config")
    cTodo,          \* the folders still to visit, in order
    cRest,          \* the repository directories still to visit (map order)
    cLog,           \* what was done with the folders visited (the order in
                    \* which the repository map is ranged over is not kept)
    \* ---- ensureShellSnippet ----
    rcFile,         \* the rc file: [exists, data], data a sequence of pieces
    rcOrig,         \* the rc file before the first call
    rcCalls,        \* calls of ensureShellSnippet so far
    rcOk,           \* those of them that returned nil
    rcErr,          \* what the last call returned ("unset" before the first)
    \* ---- the child processes of one run of a subcommand ----
    pPc,            \* "next": between two commands, "wait": inside cmd.Run,
                    \* "done": RunE returned
    pCmd,           \* the subcommand
    pQueue,         \* the commands the run still has to issue, in order
    pRunning,       \* the child processes that were started and have not exited
    pStarted,       \* child processes started so far
    pLog            \* starts and exits of child processes, in order

buildVars == <<bPc, bI, bJ, results, bErr, bTrace, bFaults>>
cfgVars == <<toolchain, host>>
fsVars == <<distExists, dist>>
fetchVars == <<fPc, fI, fErr, ghOnPath, ghLog, releaseTag, releaseTime, listOut,
               fDownloaded, fSkipped, fTrace>>
syncVars == <<repos, disk, sPc, sMode, sTodo, sRepo, sPlan, sErr, gitLog,
              sHadGit, sRun, sPrev>>
exVars == <<examples, ePc, eI, eCur, eResults, eRet, env, eOld, eLog, eTrace,
            files, onPath, inGoBin>>
wsVars == <<wPc, wTodo, wDirs, wErr, srcDirExists, goWork>>
finVars == <<finPc, finTodo, finErr, dirs, lists, distDirCfg, fontsDirCfg, cwdOk,
             ranCmd>>
devVars == <<dPc, dCmd, dVariant, dFlags, dRel, dCounts, dErr, relLog>>
cleanVars == <<present, cVariant, cTodo, cRest, cLog>>
rcVars == <<rcFile, rcOrig, rcCalls, rcOk, rcErr>>
procVars == <<pPc, pCmd, pQueue, pRunning, pStarted, pLog>>
cmdVars == <<cPc, cCmd, cErr, listed, cleanVars, rcVars, procVars>>

(***************************************************************************)
(* Bounds of the model.                                                    *)
(***************************************************************************)
\* number of toolchain entries the model's cfg.toolchain holds
MaxBins == 2
\* environment faults (mkdir / abs / toolchain failures) per build matrix
MaxFaults == 2
\* instants 1..MaxTime at which a release was created or a local file written
MaxTime == 2
\* data repositories and code repositories the model's cfg.repos holds (each)
MaxRepos == 2
\* successive runs of the synchronizer
MaxRuns == 2
\* references in the list handed to runExamples
MaxExamples == 2
\* tokens in a raw reference given to normalizeExampleName
MaxTokens == 4
\* pieces in the rc file before the first call of ensureShellSnippet
MaxRcLen == 5
\* calls of ensureShellSnippet on one rc file
MaxCalls == 3

(***************************************************************************)
(* Types and constants of the program.                                     *)
(***************************************************************************)
targetNative == "native"
targetWASM == "wasm"
targetWASI == "wasi"

\* the Go nil error
NoErr == "<nil>"

\* cfg.initToolchain: the fixed static list, in source order
AllBins ==
    << [name |-> "decksh",  repo |-> "decksh",    wasmSupport |-> TRUE,  wasiSupport |-> TRUE,  requiresUI |-> FALSE],
       [name |-> "dshfmt",  repo |-> "decksh",    wasmSupport |-> TRUE,  wasiSupport |-> TRUE,  requiresUI |-> FALSE],
       [name |-> "dshlint", repo |-> "decksh",    wasmSupport |-> TRUE,  wasiSupport |-> TRUE,  requiresUI |-> FALSE],
       [name |-> "pdfdeck", repo |-> "deck",      wasmSupport |-> TRUE,  wasiSupport |-> TRUE,  requiresUI |-> FALSE],
       [name |-> "pngdeck", repo |-> "deck",      wasmSupport |-> TRUE,  wasiSupport |-> TRUE,  requiresUI |-> FALSE],
       [name |-> "svgdeck", repo |-> "deck",      wasmSupport |-> TRUE,  wasiSupport |-> TRUE,  requiresUI |-> FALSE],
       [name |-> "gift",    repo |-> "gift",      wasmSupport |-> TRUE,  wasiSupport |-> TRUE,  requiresUI |-> FALSE],
       [name |-> "giftsh",  repo |-> "giftsh",    wasmSupport |-> TRUE,  wasiSupport |-> TRUE,  requiresUI |-> FALSE],
       [name |-> "ebdeck",  repo |-> "ebcanvas",  wasmSupport |-> FALSE, wasiSupport |-> FALSE, requiresUI |-> TRUE],
       [name |-> "gcdeck",  repo |-> "giocanvas", wasmSupport |-> FALSE, wasiSupport |-> FALSE, requiresUI |-> TRUE] >>

\* the targets dev-build and dev-release request, in order
buildTargets == <<targetNative, targetWASM, targetWASI>>

\* hosts the tool runs on: (runtime.GOOS, runtime.GOARCH)
Hosts == { [os |-> "linux", arch |-> "amd64"], [os |-> "windows", arch |-> "amd64"] }

\* cfg.distDir after finalize: absPath(".dist")
DistDirAbs == "/work/.dist"

\* time.Time{}: the zero instant, for which IsZero() holds
ZeroTime == 0

\* modification time given to a file written now (later than every release)
Now == MaxTime + 1

\* filepath.Join of a directory and a file name
Join(dir, file) ==
    IF dir = "" THEN file ELSE IF file = "" THEN dir ELSE dir \o "/" \o file

(***************************************************************************)
(* build.go                                                                *)
(***************************************************************************)
\* mutant of getRequirement: the requirement is always reported as UI
getRequirementAlwaysUI(spec) == "UI/graphics"

getRequirement(spec) ==
    IF spec.requiresUI THEN "UI/graphics" ELSE "platform support"

\* mutant of buildFilename: the native name never gets an extension
buildFilenameNoExe(name, target) ==
    CASE target = targetWASM -> name \o "-wasm.wasm"
      [] target = targetWASI -> name \o "-wasi.wasm"
      [] OTHER -> name \o "-" \o host.os \o "-" \o host.arch

buildFilename(name, target) ==
    CASE target = targetWASM -> name \o "-wasm.wasm"
      [] target = targetWASI -> name \o "-wasi.wasm"
      [] OTHER ->
            LET goos == host.os
                goarch == host.arch
                ext == IF goos = "windows" THEN ".exe" ELSE ""
            IN  name \o "-" \o goos \o "-" \o goarch \o ext

\* mutant of setPath: the path is never recorded
setPathNever(result, outPath) == result

\* result.path = outPath, before anything is attempted
setPath(result, outPath) == [result EXCEPT !.path = outPath]

\* The outcomes the host can give one buildBinary call.  os.MkdirAll fails
\* with the errno of the file system: EACCES ("permission denied") or, where
\* the file system cannot make directories, ENOTSUP ("operation not
\* supported").
BuildFaults == {"none", "mkdir", "mkdirfs", "abs", "build"}

\* the outcomes in which os.MkdirAll returned an error
MkdirFaults == {"mkdir", "mkdirfs"}

\* buildBinary: the buildResult it returns and what it did on the host
\* (mkdir: os.MkdirAll was called; go: the toolchain was invoked;
\*  wrote: the name of the output file produced, "" for none).
buildBinary(spec, target, outputDir, fault) ==
    LET result == [binary |-> spec.name, target |-> target, path |-> "", err |-> NoErr]
        quiet == [mkdir |-> FALSE, go |-> FALSE, wrote |-> ""]
    IN  IF target = targetWASM /\ ~spec.wasmSupport
        THEN quiet @@
             [result |-> [result EXCEPT !.err =
                 "WASM not supported (requires " \o getRequirement(spec) \o ")"]]
        ELSE IF target = targetWASI /\ ~spec.wasiSupport
        THEN quiet @@
             [result |-> [result EXCEPT !.err =
                 "WASI not supported (requires " \o getRequirement(spec) \o ")"]]
        ELSE
            LET filename == buildFilename(spec.name, target)
                outPath == Join(outputDir, filename)
                r1 == setPath(result, outPath)
            IN  IF fault = "mkdir"
                THEN [mkdir |-> TRUE, go |-> FALSE, wrote |-> "",
                      result |-> [r1 EXCEPT !.err = "mkdir: permission denied"]]
                ELSE IF fault = "mkdirfs"
                THEN [mkdir |-> TRUE, go |-> FALSE, wrote |-> "",
                      result |-> [r1 EXCEPT !.err = "mkdir: operation not supported"]]
                ELSE IF fault = "abs"
                THEN [mkdir |-> TRUE, go |-> FALSE, wrote |-> "",
                      result |-> [r1 EXCEPT !.err = "abs path: getwd failed"]]
                ELSE IF fault = "build"
                THEN [mkdir |-> TRUE, go |-> TRUE, wrote |-> "",
                      result |-> [r1 EXCEPT !.err = "build failed: exit status 1"]]
                ELSE [mkdir |-> TRUE, go |-> TRUE, wrote |-> filename,
                      result |-> r1]

\* the static capability check of buildBinary passes
Supported(spec, target) ==
    /\ ~(target = targetWASM /\ ~spec.wasmSupport)
    /\ ~(target = targetWASI /\ ~spec.wasiSupport)

otherThanBuild == <<fetchVars, syncVars, exVars, wsVars, finVars, devVars,
                    cmdVars>>

\* dev-build / dev-release enter buildAll(ctx, buildTargets, cfg.distDir)
BuildAllStart ==
    /\ bPc = "idle"
    /\ bPc' = "loop"
    /\ bI' = 1
    /\ bJ' = 1
    /\ results' = <<>>
    /\ bTrace' = <<>>
    /\ UNCHANGED <<bErr, bFaults, cfgVars, fsVars, otherThanBuild>>

\* mutant of buildAllDone: the matrix is abandoned at the first failed pair
buildAllDoneAbortOnError ==
    \/ bI > Len(toolchain)
    \/ (results # <<>> /\ results[Len(results)].err # NoErr)

\* the outer loop `for _, spec := range cfg.toolchain` is exhausted
buildAllDone == bI > Len(toolchain)

\* one iteration of the inner loop: result := buildBinary(...); append
BuildAllStep ==
    /\ bPc = "loop"
    /\ ~buildAllDone
    /\ \E fault \in BuildFaults :
        LET spec == toolchain[bI]
            target == buildTargets[bJ]
            call == buildBinary(spec, target, DistDirAbs, fault)
        IN  \* the host's part: which outcomes it can give here
            /\ fault # "none" => Supported(spec, target) /\ bFaults < MaxFaults
            /\ fault \in MkdirFaults => ~distExists   \* MkdirAll of an existing directory succeeds
            /\ bFaults' = IF fault = "none" THEN bFaults ELSE bFaults + 1
            /\ results' = Append(results, call.result)
            /\ bTrace' = Append(bTrace, [mkdir |-> call.mkdir, go |-> call.go, wrote |-> call.wrote])
            /\ distExists' = (distExists \/ (call.mkdir /\ fault \notin MkdirFaults))
            /\ dist' = IF call.wrote = "" THEN dist
                       ELSE [f \in DOMAIN dist \cup {call.wrote} |->
                               IF f = call.wrote THEN [mtime |-> Now, exec |-> TRUE] ELSE dist[f]]
    /\ IF bJ < Len(buildTargets)
       THEN bJ' = bJ + 1 /\ bI' = bI
       ELSE bJ' = 1 /\ bI' = bI + 1
    /\ bPc' = "loop"
    /\ UNCHANGED <<bErr, cfgVars, otherThanBuild>>

\* both loops are exhausted: return results, nil
BuildAllReturn ==
    /\ bPc = "loop"
    /\ buildAllDone
    /\ bPc' = "done"
    /\ bErr' = NoErr
    /\ UNCHANGED <<bI, bJ, results, bTrace, bFaults, cfgVars, fsVars, otherThanBuild>>

(***************************************************************************)
(* binaries.go: ensureGhCli, downloadReleaseBinaries                       *)
(***************************************************************************)
otherThanFetch == <<buildVars, syncVars, exVars, wsVars, finVars, devVars,
                    cmdVars>>

\* What `gh release list --limit 1` can print: nothing, a line with fewer
\* than three tab-separated fields, a full line (TITLE, TYPE, TAG, DATE).
\* An output is its sequence of lines, a line its sequence of fields.
ListOutputs ==
    { << >>,
      << <<"no releases found">> >>,
      << <<"Development Release dev-1", "Pre-release", "dev-1", "2025-10-29">> >> }

\* What `gh release view TAG --json createdAt -q .createdAt` can print.
ViewOutputs ==
    [kind : {"empty", "null", "garbage"}, t : {ZeroTime}]
        \cup [kind : {"time"}, t : 1..MaxTime]

\* strings.Split(strings.TrimSpace(output), "\n"): never empty, an empty
\* output gives one empty line
splitLines(output) == IF output = << >> THEN << <<"">> >> ELSE output

\* mutant of After: an equal instant counts as later
AfterOrEqual(t, u) == t >= u

\* time.Time.After
After(t, u) == t > u

\* the loop's decision for one binary, from os.Stat and the release time
fetchDecision(exists, localModTime, relTime) ==
    IF exists /\ relTime # ZeroTime
    THEN IF After(localModTime, relTime) THEN "skip" ELSE "download"
    ELSE IF exists THEN "skip" ELSE "download"

Logged(cmd, arg, ok) == [cmd |-> cmd, arg |-> arg, ok |-> ok]

\* mutant of FetchReturns: the error is swallowed
FetchReturnsNil(err) ==
    /\ fPc' = "done"
    /\ fErr' = NoErr

\* return err
FetchReturns(err) ==
    /\ fPc' = "done"
    /\ fErr' = err

\* ensureGhCli: gh is looked up on PATH and, if missing, installed with go install
EnsureGhCli ==
    /\ fPc = "idle"
    /\ \/ /\ ghOnPath
          /\ fPc' = "list"
          /\ UNCHANGED <<fErr, ghOnPath, ghLog>>
       \/ /\ ~ghOnPath
          /\ \E ok \in BOOLEAN :
                /\ ghLog' = Append(ghLog, Logged("go install gh", "", ok))
                /\ IF ok
                   THEN fPc' = "list" /\ ghOnPath' = TRUE /\ UNCHANGED fErr
                   ELSE FetchReturns("failed to install gh CLI: exit status 1")
                        /\ UNCHANGED ghOnPath
    /\ UNCHANGED <<fI, releaseTag, releaseTime, listOut, fDownloaded, fSkipped, fTrace>>
    /\ UNCHANGED <<cfgVars, fsVars, otherThanFetch>>

\* gh release list --limit 1, and the parse of its output
FetchList ==
    /\ fPc = "list"
    /\ \E ok \in BOOLEAN, output \in ListOutputs :
        /\ ~ok => output = << >>
        /\ ghLog' = Append(ghLog, Logged("gh release list", "", ok))
        /\ listOut' = [ran |-> TRUE, out |-> output]
        /\ LET lines == splitLines(output)
               fields == lines[1]
           IN  IF ~ok
               THEN FetchReturns("failed to list releases: exit status 1")
                    /\ UNCHANGED releaseTag
               ELSE IF Len(lines) = 0
               THEN FetchReturns("no releases found") /\ UNCHANGED releaseTag
               ELSE IF Len(fields) < 3
               THEN FetchReturns("failed to parse release info") /\ UNCHANGED releaseTag
               ELSE fPc' = "view" /\ releaseTag' = fields[3] /\ UNCHANGED fErr
    /\ UNCHANGED <<fI, ghOnPath, releaseTime, fDownloaded, fSkipped, fTrace>>
    /\ UNCHANGED <<cfgVars, fsVars, otherThanFetch>>

\* gh release view, the parse of the time, and os.MkdirAll(cfg.distDir)
FetchView ==
    /\ fPc = "view"
    /\ \E ok \in BOOLEAN, timeOutput \in ViewOutputs, mkdirOk \in BOOLEAN :
        /\ ~ok => timeOutput.kind = "empty"
        /\ (~ok \/ timeOutput.kind = "garbage") => mkdirOk
        /\ ~mkdirOk => ~distExists       \* MkdirAll of an existing directory succeeds
        /\ ghLog' = Append(ghLog, Logged("gh release view", releaseTag, ok))
        /\ IF ~ok
           THEN FetchReturns("failed to get release time: exit status 1")
                /\ UNCHANGED <<releaseTime, fI, distExists>>
           ELSE IF timeOutput.kind = "garbage"
           THEN FetchReturns("failed to parse release time: cannot parse")
                /\ UNCHANGED <<releaseTime, fI, distExists>>
           ELSE /\ releaseTime' = (IF timeOutput.kind = "time" THEN timeOutput.t ELSE ZeroTime)
                /\ IF ~mkdirOk
                   THEN FetchReturns("create dist dir: permission denied")
                        /\ UNCHANGED <<fI, distExists>>
                   ELSE fPc' = "loop" /\ fI' = 1 /\ distExists' = TRUE /\ UNCHANGED fErr
    /\ UNCHANGED <<ghOnPath, releaseTag, listOut, fDownloaded, fSkipped, fTrace, dist>>
    /\ UNCHANGED <<cfgVars, otherThanFetch>>

\* one iteration of `for _, spec := range cfg.toolchain`
FetchLoopStep ==
    /\ fPc = "loop"
    /\ fI <= Len(toolchain)
    /\ LET filename == buildFilename(toolchain[fI].name, targetNative)
           exists == filename \in DOMAIN dist
           localModTime == IF exists THEN dist[filename].mtime ELSE ZeroTime
           found == [file |-> filename, existed |-> exists, mtime |-> localModTime,
                     relTime |-> releaseTime]
       IN  IF fetchDecision(exists, localModTime, releaseTime) = "skip"
           THEN /\ fSkipped' = fSkipped + 1
                /\ fTrace' = Append(fTrace,
                      found @@ [did |-> "skip", dlOk |-> FALSE, chmod |-> "none"])
                /\ UNCHANGED <<fDownloaded, ghLog, dist>>
           ELSE \E dlOk \in BOOLEAN, chmodOk \in BOOLEAN :
                /\ ~dlOk => chmodOk
                /\ ghLog' = Append(ghLog, Logged("gh release download", filename, dlOk))
                /\ fTrace' = Append(fTrace,
                      found @@ [did |-> "download", dlOk |-> dlOk,
                                chmod |-> IF ~dlOk THEN "none"
                                          ELSE IF chmodOk THEN "ok" ELSE "failed"])
                /\ IF ~dlOk
                   THEN UNCHANGED <<fDownloaded, dist>>      \* warning, continue
                   ELSE /\ fDownloaded' = fDownloaded + 1
                        /\ dist' = [f \in DOMAIN dist \cup {filename} |->
                                      IF f = filename
                                      THEN [mtime |-> Now, exec |-> chmodOk]
                                      ELSE dist[f]]
                /\ UNCHANGED fSkipped
    /\ fI' = fI + 1
    /\ UNCHANGED <<fPc, fErr, ghOnPath, releaseTag, releaseTime, listOut, distExists>>
    /\ UNCHANGED <<cfgVars, otherThanFetch>>

\* the loop is exhausted: the summary is printed and nil returned
FetchReturn ==
    /\ fPc = "loop"
    /\ fI > Len(toolchain)
    /\ FetchReturns(NoErr)
    /\ UNCHANGED <<fI, ghOnPath, ghLog, releaseTag, releaseTime, listOut, fDownloaded,
                   fSkipped, fTrace>>
    /\ UNCHANGED <<cfgVars, fsVars, otherThanFetch>>

InitFetch ==
    /\ fPc = "idle"
    /\ fI = 1
    /\ fErr = "unset"
    /\ ghOnPath \in BOOLEAN
    /\ ghLog = << >>
    /\ releaseTag = ""
    /\ releaseTime = ZeroTime
    /\ listOut = [ran |-> FALSE, out |-> << >>]
    /\ fDownloaded = 0
    /\ fSkipped = 0
    /\ fTrace = << >>

\* the state downloadReleaseBinaries is never entered from
FetchIdle ==
    /\ fPc = "idle"
    /\ fI = 1
    /\ fErr = "unset"
    /\ ghOnPath = TRUE
    /\ ghLog = << >>
    /\ releaseTag = ""
    /\ releaseTime = ZeroTime
    /\ listOut = [ran |-> FALSE, out |-> << >>]
    /\ fDownloaded = 0
    /\ fSkipped = 0
    /\ fTrace = << >>

\* the native files of the toolchain that an earlier run may have left in dist
NativeFiles == { buildFilename(toolchain[i].name, targetNative) : i \in 1..Len(toolchain) }

InitFsFetch ==
    /\ distExists \in BOOLEAN
    /\ dist \in UNION { [D -> [mtime : 1..MaxTime, exec : {TRUE}]] : D \in SUBSET NativeFiles }
    /\ ~distExists => dist = << >>

NextFetch ==
    \/ EnsureGhCli
    \/ FetchList
    \/ FetchView
    \/ FetchLoopStep
    \/ FetchReturn

(***************************************************************************)
(* repos.go: ensureRepos, ensureBuildRepos, gitCloneOrUpdate               *)
(***************************************************************************)
otherThanSync == <<cfgVars, fsVars, buildVars, fetchVars, exVars, wsVars,
                   finVars, devVars, cmdVars>>

\* initDataRepos and initFontsRepo, with the directories finalize resolves
DataRepos ==
    << [name |-> "deckviz", url |-> "https://github.com/ajstarks/deckviz.git",
        dir |-> "/work/.data/deckviz", branch |-> "master",
        filter |-> << >>, isData |-> TRUE],
       [name |-> "dubois", url |-> "https://github.com/ajstarks/dubois-data-portraits.git",
        dir |-> "/work/.data/dubois-data-portraits", branch |-> "master",
        filter |-> <<"--filter=blob:none">>, isData |-> TRUE],
       [name |-> "deckfonts", url |-> "https://github.com/ajstarks/deckfonts.git",
        dir |-> "/work/.fonts", branch |-> "master",
        filter |-> << >>, isData |-> TRUE] >>

\* initCodeRepos
CodeRepos ==
    << [name |-> "deck", url |-> "https://github.com/ajstarks/deck.git",
        dir |-> "/work/.src/deck", branch |-> "master", filter |-> << >>, isData |-> FALSE],
       [name |-> "decksh", url |-> "https://github.com/ajstarks/decksh.git",
        dir |-> "/work/.src/decksh", branch |-> "master", filter |-> << >>, isData |-> FALSE],
       [name |-> "ebcanvas", url |-> "https://github.com/ajstarks/ebcanvas.git",
        dir |-> "/work/.src/ebcanvas", branch |-> "main", filter |-> << >>, isData |-> FALSE],
       [name |-> "giocanvas", url |-> "https://github.com/ajstarks/giocanvas.git",
        dir |-> "/work/.src/giocanvas", branch |-> "master", filter |-> << >>, isData |-> FALSE],
       [name |-> "giftsh", url |-> "https://github.com/ajstarks/giftsh.git",
        dir |-> "/work/.src/giftsh", branch |-> "main", filter |-> << >>, isData |-> FALSE],
       [name |-> "gift", url |-> "https://github.com/ajstarks/gift.git",
        dir |-> "/work/.src/gift", branch |-> "master", filter |-> << >>, isData |-> FALSE] >>

\* the repositories of the model: the first MaxRepos of each kind
RepoTable ==
    SubSeq(DataRepos, 1, IF MaxRepos < Len(DataRepos) THEN MaxRepos ELSE Len(DataRepos))
    \o SubSeq(CodeRepos, 1, IF MaxRepos < Len(CodeRepos) THEN MaxRepos ELSE Len(CodeRepos))

RepoNames == { RepoTable[i].name : i \in 1..Len(RepoTable) }

\* the commit the remote branch points at; the remote does not change
RemoteTip == "tip"

\* fmt.Sprintf("%d", n) for the depths of the model
Itoa(n) == CASE n = 0 -> "0" [] n = 1 -> "1" [] n = 2 -> "2" [] OTHER -> "many"

\* args = append(args, fmt.Sprintf("--depth=%d", repo.depth)) if repo.depth > 0
depthArgs(repo) == IF repo.depth > 0 THEN << "--depth=" \o Itoa(repo.depth) >> ELSE << >>

\* gitClone: the argument lists of the git commands it runs, in order
gitClone(repo) ==
    << <<"clone">> \o depthArgs(repo) \o repo.filter
          \o <<"--branch", repo.branch, repo.url, repo.dir>> >>
    \o (IF Len(repo.sparse) > 0
        THEN << <<"-C", repo.dir, "sparse-checkout", "init", "--cone">>,
                <<"-C", repo.dir, "sparse-checkout", "set">> \o repo.sparse >>
        ELSE << >>)

\* mutant of gitUpdate: the hard reset is left out
gitUpdateNoReset(repo) ==
    << <<"-C", repo.dir, "fetch">> \o depthArgs(repo) \o repo.filter
          \o <<"origin", repo.branch>>,
       <<"-C", repo.dir, "checkout", repo.branch>> >>
    \o (IF Len(repo.sparse) > 0
        THEN << <<"-C", repo.dir, "sparse-checkout", "set">> \o repo.sparse >>
        ELSE << >>)

\* gitUpdate: the argument lists of the git commands it runs, in order
gitUpdate(repo) ==
    << <<"-C", repo.dir, "fetch">> \o depthArgs(repo) \o repo.filter
          \o <<"origin", repo.branch>>,
       <<"-C", repo.dir, "checkout", repo.branch>>,
       <<"-C", repo.dir, "reset", "--hard", "origin/" \o repo.branch>> >>
    \o (IF Len(repo.sparse) > 0
        THEN << <<"-C", repo.dir, "sparse-checkout", "set">> \o repo.sparse >>
        ELSE << >>)

\* mutant of gitCloneOrUpdate: the .git check is ignored
gitCloneOrUpdateAlwaysClone(repo, hasGit) == gitClone(repo)

\* gitCloneOrUpdate: update when os.Stat(dir/.git) succeeds, clone otherwise
gitCloneOrUpdate(repo, hasGit) ==
    IF hasGit THEN gitUpdate(repo) ELSE gitClone(repo)

\* the git subcommand of an argument list ("-C dir" comes first when present)
GitOp(args) ==
    LET rest == IF args[1] = "-C" THEN SubSeq(args, 3, Len(args)) ELSE args
    IN  IF rest[1] = "sparse-checkout" THEN rest[1] \o " " \o rest[2] ELSE rest[1]

\* what a successful git command does to the local clone
GitEffect(d, args) ==
    LET op == GitOp(args)
    IN  CASE op = "clone" ->
                [git |-> TRUE, content |-> RemoteTip, origin |-> RemoteTip, sparse |-> << >>]
          [] op = "fetch" -> [d EXCEPT !.origin = RemoteTip]
          [] op = "checkout" -> d
          [] op = "reset" -> [d EXCEPT !.content = d.origin]
          [] op = "sparse-checkout init" -> d
          [] op = "sparse-checkout set" -> [d EXCEPT !.sparse = SubSeq(args, 5, Len(args))]
          [] OTHER -> d

\* the errors a failing git process gives (cmd.Run's *exec.ExitError)
GitErrors == {"exit status 1", "exit status 128"}

\* mutant of SyncFails: the failure is skipped and the loop goes on
SyncFailsContinue(err) ==
    /\ sPc' = "range"
    /\ sErr' = sErr

\* return err
SyncFails(err) ==
    /\ sPc' = "done"
    /\ sErr' = err

\* ensureRepos (mode "data") or ensureBuildRepos (mode "code") is entered
SyncStart ==
    /\ sPc \in {"idle", "done"}
    /\ sRun < MaxRuns
    /\ sRun' = sRun + 1
    /\ sPc' = "range"
    /\ sTodo' = { n \in DOMAIN repos : repos[n].isData = (sMode = "data") }
    /\ sPlan' = << >>
    /\ sRepo' = ""
    /\ sErr' = "unset"
    /\ gitLog' = << >>
    /\ sHadGit' = [n \in {} |-> FALSE]
    /\ sPrev' = [ran |-> sPc = "done", err |-> sErr, disk |-> disk]
    /\ UNCHANGED <<repos, disk, sMode, otherThanSync>>

\* the range loop reaches a repository of the wanted kind (Go ranges over
\* the map in no fixed order) and gitCloneOrUpdate stats its .git
SyncNextRepo ==
    /\ sPc = "range"
    /\ \E n \in sTodo :
        /\ sTodo' = sTodo \ {n}
        /\ sRepo' = n
        /\ sHadGit' = [m \in DOMAIN sHadGit \cup {n} |->
                          IF m = n THEN disk[n].git ELSE sHadGit[m]]
        /\ sPlan' = gitCloneOrUpdate(repos[n], disk[n].git)
    /\ sPc' = "git"
    /\ UNCHANGED <<repos, disk, sMode, sErr, gitLog, sRun, sPrev, otherThanSync>>

\* runGit: one git process runs to its end; an error is returned at once
RunGit ==
    /\ sPc = "git"
    /\ sPlan # << >>
    /\ LET args == Head(sPlan)
       IN  \/ /\ gitLog' = Append(gitLog, [repo |-> sRepo, args |-> args, err |-> NoErr])
              /\ disk' = [disk EXCEPT ![sRepo] = GitEffect(@, args)]
              /\ sPlan' = Tail(sPlan)
              /\ sPc' = IF Tail(sPlan) = << >> THEN "range" ELSE "git"
              /\ UNCHANGED sErr
           \/ \E err \in GitErrors :
              /\ gitLog' = Append(gitLog, [repo |-> sRepo, args |-> args, err |-> err])
              /\ SyncFails(err)
              /\ UNCHANGED <<disk, sPlan>>
    /\ UNCHANGED <<repos, sMode, sTodo, sRepo, sHadGit, sRun, sPrev, otherThanSync>>

\* the range loop is exhausted: return nil
SyncReturn ==
    /\ sPc = "range"
    /\ sTodo = {}
    /\ sPc' = "done"
    /\ sErr' = NoErr
    /\ UNCHANGED <<repos, disk, sMode, sTodo, sRepo, sPlan, gitLog, sHadGit, sRun, sPrev,
                   otherThanSync>>

\* a local clone before the first run: absent, behind the remote, behind it
\* with local changes, or current
DiskStates ==
    { [git |-> FALSE, content |-> "none", origin |-> "none", sparse |-> << >>],
      [git |-> TRUE, content |-> "old", origin |-> "old", sparse |-> << >>],
      [git |-> TRUE, content |-> "local", origin |-> "old", sparse |-> << >>],
      [git |-> TRUE, content |-> RemoteTip, origin |-> RemoteTip, sparse |-> << >>] }

\* <NAME>_DEPTH (default 1; 0 turns --depth off) and DUBOIS_SPARSE
DepthChoices == {0, 1}
SparseChoices == { << >>, <<"plate01">> }

InitSync ==
    /\ \E depth \in DepthChoices, sparse \in SparseChoices :
          repos = [n \in RepoNames |->
                     LET r == CHOOSE x \in { RepoTable[i] : i \in 1..Len(RepoTable) } : x.name = n
                     IN  r @@ [depth |-> depth,
                               sparse |-> IF n = "dubois" THEN sparse ELSE << >>]]
    /\ sMode \in {"data", "code"}
    /\ disk \in [RepoNames -> DiskStates]
    \* what the run never looks at is left out of the enumeration
    /\ \A n \in RepoNames : repos[n].isData # (sMode = "data") => ~disk[n].git
    /\ sMode = "code" => \A n \in RepoNames : repos[n].sparse = << >>
    /\ sPc = "idle"
    /\ sTodo = {}
    /\ sRepo = ""
    /\ sPlan = << >>
    /\ sErr = "unset"
    /\ gitLog = << >>
    /\ sHadGit = [n \in {} |-> FALSE]
    /\ sRun = 0
    /\ sPrev = [ran |-> FALSE, err |-> "unset", disk |-> disk]

\* the synchronizer is not running
SyncIdle ==
    /\ repos = [n \in {} |-> 0]
    /\ disk = [n \in {} |-> 0]
    /\ sMode = "data"
    /\ sPc = "idle"
    /\ sTodo = {}
    /\ sRepo = ""
    /\ sPlan = << >>
    /\ sErr = "unset"
    /\ gitLog = << >>
    /\ sHadGit = [n \in {} |-> FALSE]
    /\ sRun = 0
    /\ sPrev = [ran |-> FALSE, err |-> "unset", disk |-> << >>]

NextSync ==
    \/ SyncStart
    \/ SyncNextRepo
    \/ RunGit
    \/ SyncReturn

(***************************************************************************)
(* examples.go, paths.go, util: parseExample, getExampleDir, runExamples   *)
(***************************************************************************)
otherThanExamples == <<cfgVars, fsVars, buildVars, fetchVars, syncVars,
                       wsVars, finVars, devVars, cmdVars>>

\* A raw reference is a sequence of tokens: "/" , " " (white space) or a
\* word holding neither; the string is the concatenation of its tokens.
RECURSIVE Str(_)
Str(toks) == IF toks = << >> THEN "" ELSE Head(toks) \o Str(Tail(toks))

RECURSIVE TrimLeft(_)
TrimLeft(toks) ==
    IF toks # << >> /\ Head(toks) = " " THEN TrimLeft(Tail(toks)) ELSE toks

RECURSIVE TrimRight(_)
TrimRight(toks) ==
    IF toks # << >> /\ toks[Len(toks)] = " "
    THEN TrimRight(SubSeq(toks, 1, Len(toks) - 1)) ELSE toks

\* strings.TrimSpace
TrimSpace(toks) == TrimRight(TrimLeft(toks))

\* strings.HasPrefix
HasPrefix(toks, prefix) ==
    Len(prefix) <= Len(toks) /\ SubSeq(toks, 1, Len(prefix)) = prefix

\* strings.Contains(raw, "/")
ContainsSlash(toks) == \E i \in 1..Len(toks) : toks[i] = "/"

\* strings.SplitN(raw, "/", 2): split at the first slash
SplitN2(toks) ==
    LET i == CHOOSE j \in 1..Len(toks) :
                 toks[j] = "/" /\ \A k \in 1..(j - 1) : toks[k] # "/"
    IN  << SubSeq(toks, 1, i - 1), SubSeq(toks, i + 1, Len(toks)) >>

\* the dataDir constant
dataDir == ".data"

\* the directories finalize makes absolute
WorkDir == "/work"
GoBinDir == "/home/user/go/bin"
FontsDirAbs == Join(WorkDir, ".fonts")

\* cfg.repos as the init functions fill it, with the default depth and no
\* sparse list
DefaultRepos ==
    LET table == DataRepos \o CodeRepos
    IN  [n \in { table[i].name : i \in 1..Len(table) } |->
            LET r == CHOOSE x \in { table[i] : i \in 1..Len(table) } : x.name = n
            IN  r @@ [depth |-> 1, sparse |-> << >>]]

\* the srcDir constant
srcDir == ".src"

\* directories a <NAME>_DIR override moves a repository to
OverrideParents == { "/opt", "/opt/forks" }

\* the directories repositories are kept in, and the last elements of their paths
PathParents == { WorkDir, Join(WorkDir, dataDir), Join(WorkDir, srcDir) } \cup OverrideParents
PathLasts ==
    { "deckviz", "dubois-data-portraits", ".fonts", "deck", "decksh",
      "ebcanvas", "giocanvas", "giftsh", "gift", "deck-fork", "decksh-fork" }

\* filepath.Base of a repository directory: its last element
BaseTable ==
    [p \in { Join(d, b) : d \in PathParents, b \in PathLasts } |->
        CHOOSE b \in PathLasts : \E d \in PathParents : p = Join(d, b)]

Base(path) == BaseTable[path]

\* getRepoNameByDir (the default directories have distinct last elements)
getRepoNameByDir(dirName) ==
    LET hits == { n \in DOMAIN repos : Base(repos[n].dir) = dirName }
    IN  IF hits = {} THEN "" ELSE CHOOSE n \in hits : TRUE

\* mutant of parseExample: neither the .data/ prefix nor a directory name
\* is looked at
parseExampleAsWritten(raw) ==
    LET r1 == TrimSpace(raw)
    IN  IF r1 = << >> THEN [source |-> <<"deckviz">>, name |-> << >>]
        ELSE IF ContainsSlash(r1)
             THEN LET parts == SplitN2(r1)
                  IN  [source |-> IF parts[1] = << >> THEN <<"deckviz">> ELSE parts[1],
                       name |-> TrimSpace(parts[2])]
             ELSE [source |-> <<"deckviz">>, name |-> r1]

\* cfg.parseExample: (source, name), both as token sequences
parseExample(raw) ==
    LET r1 == TrimSpace(raw)
    IN  IF r1 = << >> THEN [source |-> <<"deckviz">>, name |-> << >>]
        ELSE
          LET r2 == IF HasPrefix(r1, <<dataDir, "/">>) THEN SubSeq(r1, 3, Len(r1)) ELSE r1
          IN  IF ContainsSlash(r2)
              THEN LET parts == SplitN2(r2)
                       src == parts[1]
                       exampleName == TrimSpace(parts[2])
                       repoName == getRepoNameByDir(Str(src))
                   IN  IF repoName # "" THEN [source |-> <<repoName>>, name |-> exampleName]
                       ELSE IF src = << >>
                            THEN [source |-> <<"deckviz">>, name |-> exampleName]
                            ELSE [source |-> src, name |-> exampleName]
              ELSE [source |-> <<"deckviz">>, name |-> r2]

\* cfg.normalizeExampleName, as a string
normalizeExampleName(raw) ==
    LET p == parseExample(raw)
    IN  IF p.source = <<"deckviz">> THEN "deckviz/" \o Str(p.name)
        ELSE Str(p.source) \o "/" \o Str(p.name)

\* the string normalizeExampleName returns, as the token sequence it reads as
normalizeExampleTokens(raw) ==
    LET p == parseExample(raw)
    IN  p.source \o <<"/">> \o p.name

\* getExampleDir
getExampleDir(source, name) ==
    CASE source = "deckviz" -> [dir |-> Join(repos["deckviz"].dir, name), err |-> NoErr]
      [] source = "dubois" -> [dir |-> Join(repos["dubois"].dir, name), err |-> NoErr]
      [] OTHER -> [dir |-> "", err |-> "unknown example source \"" \o source \o "\""]

getExampleDshPath(dir, name) == Join(dir, name \o ".dsh")

getExampleXmlPath(dir, name) == Join(dir, name \o ".xml")

\* getBinaryPath and getGoBinPath
getBinaryPath(name) == Join(DistDirAbs, name \o "-" \o host.os \o "-" \o host.arch)
getGoBinPath(name) == Join(GoBinDir, name)

\* a file of the dist directory exists (os.Stat succeeds)
StatDist(path) == \E f \in DOMAIN dist : path = Join(DistDirAbs, f)

\* mutant of resolveBinary: PATH is searched before the dist directory
resolveBinaryPathFirst(name) ==
    IF name \in onPath THEN [path |-> Join("/usr/bin", name), err |-> NoErr]
    ELSE IF StatDist(getBinaryPath(name)) THEN [path |-> getBinaryPath(name), err |-> NoErr]
    ELSE IF name \in inGoBin THEN [path |-> getGoBinPath(name), err |-> NoErr]
    ELSE [path |-> "",
          err |-> name \o " not found in " \o DistDirAbs \o ", PATH, or " \o GoBinDir]

\* resolveBinary: dist first, then PATH, then goBinDir
resolveBinary(name) ==
    IF StatDist(getBinaryPath(name)) THEN [path |-> getBinaryPath(name), err |-> NoErr]
    ELSE IF name \in onPath THEN [path |-> Join("/usr/bin", name), err |-> NoErr]
    ELSE IF name \in inGoBin THEN [path |-> getGoBinPath(name), err |-> NoErr]
    ELSE [path |-> "",
          err |-> name \o " not found in " \o DistDirAbs \o ", PATH, or " \o GoBinDir]

\* the errors a failing child process gives (cmd.Run's *exec.ExitError)
ChildErrors == {"exit status 1"}

\* m[key] = val on a Go map
MapSet(m, key, val) ==
    [k \in DOMAIN m \cup {key} |-> IF k = key THEN val ELSE m[k]]

\* mutant of RestoreEnv: the deferred function leaves DECKFONTS as it is
RestoreEnvKeep == env

\* the deferred function: DECKFONTS is put back, or unset if it read empty
RestoreEnv == IF eOld # "" THEN [set |-> TRUE, val |-> eOld] ELSE [set |-> FALSE, val |-> ""]

\* return nil, err (the deferred function runs)
ReturnErr(err) ==
    /\ ePc' = "done"
    /\ eRet' = [nil |-> TRUE, results |-> << >>, err |-> err]
    /\ env' = RestoreEnv
    /\ UNCHANGED <<eI, eResults>>

\* mutant of ToolFailed: the failing reference is passed over
ToolFailedContinue(err) ==
    /\ ePc' = "loop"
    /\ eI' = eI + 1
    /\ UNCHANGED <<eRet, env, eResults>>

\* if err := cfg.runTool(...) / cfg.renderDeck(...); err != nil { return nil, err }
ToolFailed(err) == ReturnErr(err)

\* one more entry of the trace
Traced(did, err) ==
    eTrace' = Append(eTrace, [raw |-> examples[eI], key |-> normalizeExampleName(examples[eI]),
                              did |-> did, err |-> err])

\* runExamples is entered: DECKFONTS is saved and set
RunExamplesStart ==
    /\ ePc = "idle"
    /\ eOld' = (IF env.set THEN env.val ELSE "")
    /\ env' = [set |-> TRUE, val |-> FontsDirAbs]
    /\ eResults' = << >>
    /\ eI' = 1
    /\ ePc' = "loop"
    /\ UNCHANGED <<examples, eCur, eRet, eLog, eTrace, files, onPath, inGoBin,
                   otherThanExamples>>

\* one reference is parsed, resolved to its directory and its script looked for
ExampleResolve ==
    /\ ePc = "loop"
    /\ eI <= Len(examples)
    /\ LET raw == examples[eI]
           p == parseExample(raw)
           source == Str(p.source)
           name == Str(p.name)
           d == getExampleDir(source, name)
           dshPath == getExampleDshPath(d.dir, name)
       IN  IF d.err # NoErr
           THEN /\ ReturnErr(d.err)
                /\ Traced("unknown", d.err)
                /\ UNCHANGED eCur
           ELSE IF dshPath \notin files
           THEN \* Skipping ...: continue
                /\ Traced("skip", NoErr)
                /\ eI' = eI + 1
                /\ UNCHANGED <<ePc, eCur, eRet, env, eResults>>
           ELSE /\ eCur' = [source |-> source, name |-> name, dir |-> d.dir]
                /\ ePc' = "lint"
                /\ UNCHANGED <<eI, eRet, env, eResults, eTrace>>
    /\ UNCHANGED <<examples, eOld, eLog, files, onPath, inGoBin, otherThanExamples>>

\* runTool(ctx, dir, "dshlint", name+".dsh")
ExampleLint ==
    /\ ePc = "lint"
    /\ LET rb == resolveBinary("dshlint")
       IN  IF rb.err # NoErr
           THEN /\ ToolFailed(rb.err)
                /\ Traced("lintfail", rb.err)
                /\ UNCHANGED eLog
           ELSE \E out \in {NoErr} \cup ChildErrors :
                /\ eLog' = Append(eLog, [tool |-> "dshlint", path |-> rb.path,
                                         dir |-> eCur.dir, arg |-> eCur.name \o ".dsh",
                                         deckfonts |-> env, err |-> out])
                /\ IF out = NoErr
                   THEN /\ ePc' = "render"
                        /\ UNCHANGED <<eI, eRet, env, eResults, eTrace>>
                   ELSE /\ ToolFailed(out)
                        /\ Traced("lintfail", out)
    /\ UNCHANGED <<examples, eCur, eOld, files, onPath, inGoBin, otherThanExamples>>

\* renderDeck, then results[normalizeExampleName(raw)] = xmlPath
ExampleRender ==
    /\ ePc = "render"
    /\ LET rb == resolveBinary("decksh")
           xmlPath == getExampleXmlPath(eCur.dir, eCur.name)
       IN  IF rb.err # NoErr
           THEN /\ ToolFailed(rb.err)
                /\ Traced("renderfail", rb.err)
                /\ UNCHANGED <<eLog, files>>
           ELSE \/ \* os.Create(output) fails
                   /\ ToolFailed("open " \o xmlPath \o ": permission denied")
                   /\ Traced("renderfail", "open " \o xmlPath \o ": permission denied")
                   /\ UNCHANGED <<eLog, files>>
                \/ \E out \in {NoErr} \cup ChildErrors :
                   /\ files' = files \cup {xmlPath}
                   /\ eLog' = Append(eLog, [tool |-> "decksh", path |-> rb.path,
                                            dir |-> eCur.dir, arg |-> eCur.name \o ".dsh",
                                            deckfonts |-> env, err |-> out])
                   /\ IF out = NoErr
                      THEN /\ eResults' = MapSet(eResults, normalizeExampleName(examples[eI]),
                                                 xmlPath)
                           /\ Traced("ok", NoErr)
                           /\ eI' = eI + 1
                           /\ ePc' = "loop"
                           /\ UNCHANGED <<eRet, env>>
                      ELSE /\ ToolFailed(out)
                           /\ Traced("renderfail", out)
    /\ UNCHANGED <<examples, eCur, eOld, onPath, inGoBin, otherThanExamples>>

\* the range loop is exhausted
RunExamplesReturn ==
    /\ ePc = "loop"
    /\ eI > Len(examples)
    /\ IF DOMAIN eResults = {}
       THEN ReturnErr("no examples rendered")
       ELSE /\ ePc' = "done"
            /\ eRet' = [nil |-> FALSE, results |-> eResults, err |-> NoErr]
            /\ env' = RestoreEnv
            /\ UNCHANGED <<eI, eResults>>
    /\ UNCHANGED <<examples, eCur, eOld, eLog, eTrace, files, onPath, inGoBin,
                   otherThanExamples>>

NextExamples ==
    \/ RunExamplesStart
    \/ ExampleResolve
    \/ ExampleLint
    \/ ExampleRender
    \/ RunExamplesReturn

\* raw references handed to the tool
ExampleInputs ==
    { <<"fire">>,
      <<"deckviz", "/", "fire">>,
      <<"dubois", "/", "plate01">>,
      <<dataDir, "/", "dubois-data-portraits", "/", "plate01">>,
      <<" ", "deckviz", "/", "go", " ">>,
      <<"nosuch", "/", "x">>,
      <<"/", "fire">>,
      <<"dubois-data-portraits", "/", "plate01">> }

\* the scripts that may be present in the data repositories
ExampleScripts ==
    { "/work/.data/deckviz/fire/fire.dsh",
      "/work/.data/deckviz/go/go.dsh",
      "/work/.data/dubois-data-portraits/plate01/plate01.dsh" }

\* where the lint and render tools are installed: dist files, PATH, goBinDir
ToolSetups ==
    LET fetched == { buildFilename("decksh", targetNative),
                     buildFilename("dshlint", targetNative) }
        file == [mtime |-> 1, exec |-> TRUE]
    IN  { [dist |-> << >>, onPath |-> {"decksh", "dshlint"}, inGoBin |-> {}],
          [dist |-> [f \in fetched |-> file], onPath |-> {}, inGoBin |-> {}],
          [dist |-> [f \in fetched |-> file], onPath |-> {"decksh", "dshlint"},
           inGoBin |-> {"decksh"}],
          [dist |-> [f \in {buildFilename("decksh", targetNative)} |-> file],
           onPath |-> {}, inGoBin |-> {"decksh", "dshlint"}],
          [dist |-> << >>, onPath |-> {"dshlint"}, inGoBin |-> {}],
          [dist |-> << >>, onPath |-> {}, inGoBin |-> {}] }

\* DECKFONTS before the call: unset, set to the empty string, or set
EnvChoices ==
    { [set |-> FALSE, val |-> ""], [set |-> TRUE, val |-> ""],
      [set |-> TRUE, val |-> "/opt/fonts"] }

InitExamples ==
    /\ toolchain = SubSeq(AllBins, 1, MaxBins)
    /\ host \in Hosts
    /\ \E t \in ToolSetups :
          /\ dist = t.dist
          /\ distExists = (t.dist # << >>)
          /\ onPath = t.onPath
          /\ inGoBin = t.inGoBin
    /\ repos = DefaultRepos
    /\ disk = [n \in DOMAIN DefaultRepos |->
                 [git |-> TRUE, content |-> RemoteTip, origin |-> RemoteTip, sparse |-> << >>]]
    /\ sMode = "data"
    /\ sPc = "idle"
    /\ sTodo = {}
    /\ sRepo = ""
    /\ sPlan = << >>
    /\ sErr = "unset"
    /\ gitLog = << >>
    /\ sHadGit = [n \in {} |-> FALSE]
    /\ sRun = 0
    /\ sPrev = [ran |-> FALSE, err |-> "unset", disk |-> << >>]
    /\ examples \in UNION { [1..n -> ExampleInputs] : n \in 0..MaxExamples }
    /\ files \in SUBSET ExampleScripts
    /\ env \in EnvChoices
    /\ ePc = "idle"
    /\ eI = 1
    /\ eCur = [source |-> "", name |-> "", dir |-> ""]
    /\ eResults = << >>
    /\ eRet = [nil |-> TRUE, results |-> << >>, err |-> "unset"]
    /\ eOld = ""
    /\ eLog = << >>
    /\ eTrace = << >>

\* runExamples is not running
ExamplesIdle ==
    /\ examples = << >>
    /\ files = {}
    /\ env = [set |-> FALSE, val |-> ""]
    /\ onPath = {}
    /\ inGoBin = {}
    /\ ePc = "idle"
    /\ eI = 1
    /\ eCur = [source |-> "", name |-> "", dir |-> ""]
    /\ eResults = << >>
    /\ eRet = [nil |-> TRUE, results |-> << >>, err |-> "unset"]
    /\ eOld = ""
    /\ eLog = << >>
    /\ eTrace = << >>

(***************************************************************************)
(* workspace.go: ensureWorkspace                                           *)
(***************************************************************************)
otherThanWorkspace == <<cfgVars, fsVars, buildVars, fetchVars, syncVars,
                        exVars, finVars, devVars, cmdVars>>

\* content := "go 1.25\n\n"
GoWorkHeader == "go 1.25"

\* what the go command reads a use entry of .src/go.work as: a path relative
\* to the directory that holds the file
ResolveUse(entry) ==
    IF entry = ".." THEN WorkDir
    ELSE LET b == CHOOSE x \in PathLasts \cup {"old"} : entry = "./" \o x
         IN  Join(Join(WorkDir, srcDir), b)

\* os.MkdirAll(srcDir) succeeded: dirs starts with the parent directory
EnsureWorkspaceStart ==
    /\ wPc = "idle"
    /\ \/ /\ srcDirExists' = TRUE
          /\ wDirs' = <<"..">>
          /\ wTodo' = DOMAIN repos
          /\ wPc' = "range"
          /\ UNCHANGED wErr
       \/ /\ ~srcDirExists
          /\ wErr' = "create " \o srcDir \o " dir: mkdir " \o srcDir \o ": permission denied"
          /\ wPc' = "done"
          /\ UNCHANGED <<srcDirExists, wDirs, wTodo>>
    /\ UNCHANGED <<goWork, otherThanWorkspace>>

\* one turn of the range over cfg.repos (Go ranges over the map in no fixed
\* order): a code repository adds "./" + filepath.Base(repo.dir)
WorkspaceRange ==
    /\ wPc = "range"
    /\ wTodo # {}
    /\ \E n \in wTodo :
          /\ wTodo' = wTodo \ {n}
          /\ wDirs' = IF ~repos[n].isData
                      THEN Append(wDirs, "./" \o Base(repos[n].dir))
                      ELSE wDirs
    /\ UNCHANGED <<wPc, wErr, srcDirExists, goWork, otherThanWorkspace>>

\* os.WriteFile(workFile, content): the file is replaced; a failing write may
\* leave the old file or a truncated one
WorkspaceWrite ==
    /\ wPc = "range"
    /\ wTodo = {}
    /\ wPc' = "done"
    /\ \/ /\ goWork' = [exists |-> TRUE, header |-> GoWorkHeader, uses |-> wDirs]
          /\ wErr' = NoErr
       \/ /\ goWork' \in { goWork, [exists |-> TRUE, header |-> "", uses |-> << >>] }
          /\ wErr' = "write go.work: permission denied"
    /\ UNCHANGED <<wTodo, wDirs, srcDirExists, otherThanWorkspace>>

NextWorkspace ==
    \/ EnsureWorkspaceStart
    \/ WorkspaceRange
    \/ WorkspaceWrite

\* the directory of a code repository: the default, or a <NAME>_DIR override
\* (absolute after finalize)
CodeDirChoices(r) ==
    { r.dir } \cup { Join("/opt", r.name), Join("/opt/forks", r.name \o "-fork") }

\* go.work before the call: absent, or left by an earlier version
GoWorkBefore ==
    { [exists |-> FALSE, header |-> "", uses |-> << >>],
      [exists |-> TRUE, header |-> "go 1.21", uses |-> <<"..", "./old">>] }

\* ensureRepos / ensureBuildRepos is not running (cfg.repos is set elsewhere)
SyncControlIdle ==
    /\ sMode = "data"
    /\ sPc = "idle"
    /\ sTodo = {}
    /\ sRepo = ""
    /\ sPlan = << >>
    /\ sErr = "unset"
    /\ gitLog = << >>
    /\ sHadGit = [n \in {} |-> FALSE]
    /\ sRun = 0
    /\ sPrev = [ran |-> FALSE, err |-> "unset", disk |-> << >>]

InitWorkspace ==
    /\ \E chosen \in [RepoNames -> PathParents \X PathLasts] :
          /\ \A n \in RepoNames :
                LET r == CHOOSE x \in { RepoTable[i] : i \in 1..Len(RepoTable) } : x.name = n
                    d == Join(chosen[n][1], chosen[n][2])
                IN  IF r.isData THEN d = r.dir ELSE d \in CodeDirChoices(r)
          /\ repos = [n \in RepoNames |->
                LET r == CHOOSE x \in { RepoTable[i] : i \in 1..Len(RepoTable) } : x.name = n
                IN  [r EXCEPT !.dir = Join(chosen[n][1], chosen[n][2])]
                        @@ [depth |-> 1, sparse |-> << >>]]
    /\ disk = [n \in RepoNames |-> [git |-> FALSE, content |-> "none",
                                    origin |-> "none", sparse |-> << >>]]
    /\ SyncControlIdle
    /\ goWork \in GoWorkBefore
    /\ srcDirExists \in BOOLEAN
    /\ goWork.exists => srcDirExists
    /\ wPc = "idle"
    /\ wTodo = {}
    /\ wDirs = << >>
    /\ wErr = "unset"

\* ensureWorkspace is not running
WorkspaceIdle ==
    /\ wPc = "idle"
    /\ wTodo = {}
    /\ wDirs = << >>
    /\ wErr = "unset"
    /\ srcDirExists = FALSE
    /\ goWork = [exists |-> FALSE, header |-> "", uses |-> << >>]

(***************************************************************************)
(* config: finalize, run as the root command's PersistentPreRunE           *)
(***************************************************************************)
otherThanFinalize == <<cfgVars, fsVars, buildVars, fetchVars, syncVars,
                       exVars, wsVars, devVars, cmdVars>>

\* A path is [abs, elems]: rooted at "/" or not, and its elements in order.
\* the working directory of the process
Cwd == [abs |-> TRUE, elems |-> <<"work">>]

\* the path as a string
RECURSIVE JoinElems(_)
JoinElems(elems) ==
    IF elems = << >> THEN ""
    ELSE IF Len(elems) = 1 THEN elems[1]
    ELSE elems[1] \o "/" \o JoinElems(Tail(elems))

PathStr(path) == (IF path.abs THEN "/" ELSE "") \o JoinElems(path.elems)

\* filepath.Clean on the elements: "." is dropped, ".." removes the element
\* before it (at the root it is dropped, in a relative path it is kept)
RECURSIVE CleanElems(_, _, _)
CleanElems(done, todo, rooted) ==
    IF todo = << >> THEN done
    ELSE LET x == Head(todo)
         IN  IF x = "." THEN CleanElems(done, Tail(todo), rooted)
             ELSE IF x = ".."
                  THEN IF done # << >> /\ done[Len(done)] # ".."
                       THEN CleanElems(SubSeq(done, 1, Len(done) - 1), Tail(todo), rooted)
                       ELSE IF rooted THEN CleanElems(done, Tail(todo), rooted)
                            ELSE CleanElems(Append(done, x), Tail(todo), rooted)
                  ELSE CleanElems(Append(done, x), Tail(todo), rooted)

Clean(path) == [abs |-> path.abs, elems |-> CleanElems(<< >>, path.elems, path.abs)]

\* mutant of absPath: the path is returned as it is
absPathUnchanged(path, getwdOk) == [path |-> path, err |-> NoErr]

\* absPath: filepath.Abs(filepath.Clean(path)); the empty path is an error
\* and a relative path needs the working directory
absPath(path, getwdOk) ==
    IF ~path.abs /\ path.elems = << >>
    THEN [path |-> path, err |-> "path is empty"]
    ELSE LET c == Clean(path)
         IN  IF c.abs THEN [path |-> c, err |-> NoErr]
             ELSE IF ~getwdOk
                  THEN [path |-> path, err |-> "getwd: no such file or directory"]
                  ELSE [path |-> Clean([abs |-> TRUE, elems |-> Cwd.elems \o c.elems]),
                        err |-> NoErr]

\* strings.Fields(strings.TrimSpace(raw)) on a token sequence
Fields(toks) == SelectSeq(TrimSpace(toks), LAMBDA t : t # " ")

\* the repositories loadConfig configures: those of the model and deckfonts
ConfiguredRepos ==
    { RepoTable[i] : i \in 1..Len(RepoTable) }
        \cup { DataRepos[i] : i \in { j \in 1..Len(DataRepos) : DataRepos[j].name = "deckfonts" } }

ConfiguredNames == { r.name : r \in ConfiguredRepos }

\* the directory addDataRepo / addCodeRepo / initFontsRepo give by default
DefaultDir(r) ==
    [abs |-> FALSE,
     elems |-> IF r.name = "deckfonts" THEN <<".fonts">>
               ELSE IF r.isData THEN <<dataDir, Base(r.dir)>>
               ELSE <<srcDir, r.name>>]

\* PersistentPreRunE is entered
FinalizeStart ==
    /\ finPc = "loaded"
    /\ finPc' = "range"
    /\ finTodo' = DOMAIN dirs
    /\ UNCHANGED <<finErr, dirs, lists, distDirCfg, fontsDirCfg, cwdOk, ranCmd,
                   otherThanFinalize>>

\* one turn of the range over cfg.repos: dir, filter and sparse of one repo
FinalizeRange ==
    /\ finPc = "range"
    /\ \E n \in finTodo :
          LET a == absPath(dirs[n], cwdOk)
          IN  IF a.err # NoErr
              THEN /\ finErr' = "resolve " \o n \o " dir: " \o a.err
                   /\ finPc' = "failed"
                   /\ UNCHANGED <<finTodo, dirs, lists>>
              ELSE /\ dirs' = [dirs EXCEPT ![n] = a.path]
                   /\ lists' = [lists EXCEPT ![n].filter = Fields(lists[n].filterRaw),
                                             ![n].sparse = Fields(lists[n].sparseRaw)]
                   /\ finTodo' = finTodo \ {n}
                   /\ UNCHANGED <<finPc, finErr>>
    /\ UNCHANGED <<distDirCfg, fontsDirCfg, cwdOk, ranCmd, otherThanFinalize>>

\* after the loop: cfg.distDir, cfg.fontsRepo.dir (the deckfonts entry of
\* cfg.repos) and cfg.fontsDir
FinalizeRest ==
    /\ finPc = "range"
    /\ finTodo = {}
    /\ LET d == absPath([abs |-> FALSE, elems |-> <<".dist">>], cwdOk)
           f == absPath(dirs["deckfonts"], cwdOk)
       IN  IF d.err # NoErr
           THEN /\ finErr' = "resolve dist dir: " \o d.err
                /\ finPc' = "failed"
                /\ UNCHANGED <<dirs, distDirCfg, fontsDirCfg>>
           ELSE IF f.err # NoErr
           THEN /\ finErr' = "resolve fonts dir: " \o f.err
                /\ finPc' = "failed"
                /\ distDirCfg' = d.path
                /\ UNCHANGED <<dirs, fontsDirCfg>>
           ELSE /\ distDirCfg' = d.path
                /\ dirs' = [dirs EXCEPT !["deckfonts"] = f.path]
                /\ fontsDirCfg' = f.path
                /\ finErr' = NoErr
                /\ finPc' = "ok"
    /\ UNCHANGED <<finTodo, lists, cwdOk, ranCmd, otherThanFinalize>>

\* the subcommands added to the root command
Subcommands ==
    { "ensure", "examples", "run", "view", "completion", "setup",
      "dev-build", "dev-release", "dev-clean" }

\* cobra runs the subcommand's RunE once PersistentPreRunE has returned nil
RunSubcommand ==
    /\ finPc = "ok"
    /\ \E c \in Subcommands : ranCmd' = c
    /\ finPc' = "body"
    /\ UNCHANGED <<finTodo, finErr, dirs, lists, distDirCfg, fontsDirCfg, cwdOk,
                   otherThanFinalize>>

\* PersistentPreRunE returned an error: Execute returns it and main exits
ExitOnError ==
    /\ finPc = "failed"
    /\ finPc' = "exited"
    /\ UNCHANGED <<finTodo, finErr, dirs, lists, distDirCfg, fontsDirCfg, cwdOk, ranCmd,
                   otherThanFinalize>>

NextFinalize ==
    \/ FinalizeStart
    \/ FinalizeRange
    \/ FinalizeRest
    \/ RunSubcommand
    \/ ExitOnError

\* what a <NAME>_DIR override can hold: an absolute path, or a relative one
OverrideDirs(n) ==
    { [abs |-> TRUE, elems |-> <<"opt", n>>],
      [abs |-> FALSE, elems |-> <<".", "..", "forks", n>>] }

\* DUBOIS_SPARSE as typed
SparseRawChoices == { << >>, <<" ", "plate01", " ", " ", "plate02">> }

InitFinalize ==
    /\ \E over \in SUBSET ConfiguredNames, k \in {1, 2} :
          dirs = [n \in ConfiguredNames |->
                    LET r == CHOOSE x \in ConfiguredRepos : x.name = n
                        o == CHOOSE x \in OverrideDirs(n) : (k = 1) = x.abs
                    IN  IF n \in over THEN o ELSE DefaultDir(r)]
    /\ \E sp \in SparseRawChoices :
          lists = [n \in ConfiguredNames |->
                    [filterRaw |-> IF n = "dubois" THEN <<"--filter=blob:none">> ELSE << >>,
                     sparseRaw |-> IF n = "dubois" THEN sp ELSE << >>,
                     filter |-> << >>, sparse |-> << >>]]
    /\ cwdOk \in BOOLEAN
    /\ distDirCfg = [abs |-> FALSE, elems |-> << >>]
    /\ fontsDirCfg = dirs["deckfonts"]
    /\ finPc = "loaded"
    /\ finTodo = {}
    /\ finErr = "unset"
    /\ ranCmd = ""

\* the root command is not being executed
FinalizeIdle ==
    /\ finPc = "loaded"
    /\ finTodo = {}
    /\ finErr = "unset"
    /\ dirs = << >>
    /\ lists = << >>
    /\ distDirCfg = [abs |-> FALSE, elems |-> << >>]
    /\ fontsDirCfg = [abs |-> FALSE, elems |-> << >>]
    /\ cwdOk = TRUE
    /\ ranCmd = ""

(***************************************************************************)
(* commands_dev.go: dev-build, dev-release; release.go: createGithubRelease *)
(***************************************************************************)
\* strings.Contains(msg, "not supported") over the error messages of the
\* model: some text before the phrase and some text after it
NotSupportedBefore == {"WASM ", "WASI ", "mkdir: operation "}
NotSupportedAfter ==
    {"", " (requires UI/graphics)", " (requires platform support)"}
ContainsNotSupported(msg) ==
    \E a \in NotSupportedBefore, b \in NotSupportedAfter :
        msg = a \o "not supported" \o b

\* mutant of classify: an unsupported target counts as a failure
classifyUnsupportedFails(result) ==
    IF result.err # NoErr THEN "failed" ELSE "succeeded"

\* the branch the summary loop of dev-build takes for one result
classify(result) ==
    IF result.err # NoErr
    THEN IF ContainsNotSupported(result.err) THEN "skipped" ELSE "failed"
    ELSE "succeeded"

\* successCount, failCount, skipCount after the summary loop
summary(rs) ==
    [succeeded |-> Cardinality({ k \in 1..Len(rs) : classify(rs[k]) = "succeeded" }),
     failed    |-> Cardinality({ k \in 1..Len(rs) : classify(rs[k]) = "failed" }),
     skipped   |-> Cardinality({ k \in 1..Len(rs) : classify(rs[k]) = "skipped" })]

\* failCount of dev-release: results with an error that does not hold
\* "not supported"
failCount(rs) ==
    Cardinality({ k \in 1..Len(rs) :
                    rs[k].err # NoErr /\ ~ContainsNotSupported(rs[k].err) })

\* if failCount > 0 { return fmt.Errorf("some builds failed, ...") }
buildsBlock(n) == n > 0

\* time.Now().Format("20060102-150405") at the instants of the model
Stamps == <<"20251029-143052", "20251029-143053", "20251030-090000", "20251101-000000">>
Format(t) == Stamps[t]

\* generateReleaseVersion / fmt.Sprintf("dev-%s", ...)
generateReleaseVersion(t) == "dev-" \o Format(t)

\* mutant of defaultRelease: the --prerelease flag decides alone
defaultReleaseFlagOnly(version, prerelease, t) ==
    IF version = ""
    THEN [version |-> generateReleaseVersion(t), prerelease |-> prerelease]
    ELSE [version |-> version, prerelease |-> prerelease]

\* if version == "" { version = <generated>; prerelease = true }
defaultRelease(version, prerelease, t) ==
    IF version = ""
    THEN [version |-> generateReleaseVersion(t), prerelease |-> TRUE]
    ELSE [version |-> version, prerelease |-> prerelease]

\* what --version can be given as: nothing, a release tag, a dev-* tag
VersionFlags == {"", "v0.1.0", "dev-test1"}

\* one gh (or go install) command of the publish path and how it ended
GhRun(cmd, ok) ==
    [cmd |-> cmd, ok |-> ok, version |-> "", prerelease |-> FALSE,
     title |-> "", files |-> {}]

\* filepath.Glob(cfg.getDistGlob()): the entries of the dist directory
GlobDist == DOMAIN dist

\* mutant of noBinaries: an empty dist directory is let through
noBinariesNever(binaries) == FALSE

\* len(binaries) == 0
noBinaries(binaries) == binaries = {}

\* if err := authCmd.Run(); err != nil { ... gh auth login ... }
loginNeeded(statusOk) == ~statusOk

\* where RunE goes once the session is authenticated
afterAuth == IF dVariant = "helper" THEN "glob" ELSE "repo"

\* RunE returns err
DevReturns(err) ==
    /\ dPc' = "done"
    /\ dErr' = err

\* ---- dev-build --------------------------------------------------------
\* RunE of dev-build is entered: cfg.ensureBuildRepos(ctx) is called
DevBuildEnter ==
    /\ dPc = "idle"
    /\ dCmd' = "dev-build"
    /\ dPc' = "sync"
    /\ UNCHANGED <<dVariant, dFlags, dRel, dCounts, dErr, relLog>>
    /\ UNCHANGED <<cfgVars, fsVars, buildVars, fetchVars, syncVars, exVars,
                   wsVars, finVars, cmdVars>>

\* ensureBuildRepos runs
DevSyncStep ==
    /\ dPc = "sync"
    /\ \/ sPc = "idle" /\ SyncStart
       \/ SyncNextRepo
       \/ RunGit
       \/ SyncReturn

\* ensureBuildRepos returned: its error is wrapped and returned, or
\* cfg.ensureWorkspace(ctx) is called (the clones lie below .src)
DevAfterSync ==
    /\ dPc = "sync"
    /\ sPc = "done"
    /\ IF sErr # NoErr
       THEN DevReturns("sync build repos: " \o sErr) /\ UNCHANGED srcDirExists
       ELSE dPc' = "workspace" /\ srcDirExists' = TRUE /\ UNCHANGED dErr
    /\ UNCHANGED <<dCmd, dVariant, dFlags, dRel, dCounts, relLog>>
    /\ UNCHANGED <<wPc, wTodo, wDirs, wErr, goWork>>
    /\ UNCHANGED <<cfgVars, fsVars, buildVars, fetchVars, syncVars, exVars, finVars, cmdVars>>

\* ensureWorkspace runs
DevWorkspaceStep ==
    /\ dPc = "workspace"
    /\ NextWorkspace

\* ensureWorkspace returned: its error is wrapped and returned, or buildAll
\* is called
DevAfterWorkspace ==
    /\ dPc = "workspace"
    /\ wPc = "done"
    /\ IF wErr # NoErr
       THEN DevReturns("create workspace: " \o wErr)
       ELSE dPc' = "build" /\ UNCHANGED dErr
    /\ UNCHANGED <<dCmd, dVariant, dFlags, dRel, dCounts, relLog>>
    /\ UNCHANGED <<cfgVars, fsVars, buildVars, fetchVars, syncVars, exVars,
                   wsVars, finVars, cmdVars>>

\* buildAll runs (for dev-build and for dev-release)
DevBuildStep ==
    /\ dPc = "build"
    /\ \/ BuildAllStart
       \/ BuildAllStep
       \/ BuildAllReturn

\* buildAll returned to dev-build: the summary loop and the verdict
DevBuildSummary ==
    /\ dPc = "build"
    /\ dCmd = "dev-build"
    /\ bPc = "done"
    /\ IF bErr # NoErr
       THEN DevReturns(bErr) /\ UNCHANGED dCounts
       ELSE LET c == summary(results)
            IN  /\ dCounts' = c
                /\ DevReturns(IF c.failed > 0 THEN "some builds failed" ELSE NoErr)
    /\ UNCHANGED <<dCmd, dVariant, dFlags, dRel, relLog>>
    /\ UNCHANGED <<cfgVars, fsVars, buildVars, fetchVars, syncVars, exVars,
                   wsVars, finVars, cmdVars>>

\* ---- dev-release ------------------------------------------------------
\* RunE of dev-release is entered with the flags of the command line
DevReleaseEnter ==
    /\ dPc = "idle"
    /\ dCmd' = "dev-release"
    /\ \E skipBuild \in BOOLEAN, version \in VersionFlags, prerelease \in BOOLEAN :
          /\ dFlags' = [skipBuild |-> skipBuild, version |-> version,
                        prerelease |-> prerelease]
          /\ dPc' = IF skipBuild THEN "version" ELSE "build"
    /\ UNCHANGED <<dVariant, dRel, dCounts, dErr, relLog>>
    /\ UNCHANGED <<cfgVars, fsVars, buildVars, fetchVars, syncVars, exVars,
                   wsVars, finVars, cmdVars>>

\* buildAll returned to dev-release: the check for build failures
DevReleaseGate ==
    /\ dPc = "build"
    /\ dCmd = "dev-release"
    /\ bPc = "done"
    /\ IF bErr # NoErr
       THEN DevReturns("build failed: " \o bErr) /\ UNCHANGED dCounts
       ELSE LET n == failCount(results)
            IN  /\ dCounts' = [dCounts EXCEPT !.failed = n]
                /\ IF buildsBlock(n)
                   THEN DevReturns("some builds failed, cannot create release")
                   ELSE dPc' = "version" /\ UNCHANGED dErr
    /\ UNCHANGED <<dCmd, dVariant, dFlags, dRel, relLog>>
    /\ UNCHANGED <<cfgVars, fsVars, buildVars, fetchVars, syncVars, exVars,
                   wsVars, finVars, cmdVars>>

\* the version and the prerelease marking (t: the instant time.Now() gives)
DevReleaseVersion ==
    /\ dPc = "version"
    /\ \E t \in 1..MaxTime :
          dRel' = defaultRelease(dFlags.version, dFlags.prerelease, t)
    /\ dPc' = "ghcli"
    /\ UNCHANGED <<dCmd, dVariant, dFlags, dCounts, dErr, relLog>>
    /\ UNCHANGED <<cfgVars, fsVars, buildVars, fetchVars, syncVars, exVars,
                   wsVars, finVars, cmdVars>>

\* cfg.ensureGhCli(ctx)
DevEnsureGhCli ==
    /\ dPc = "ghcli"
    /\ \/ /\ ghOnPath
          /\ dPc' = "auth"
          /\ UNCHANGED <<dErr, ghOnPath, relLog>>
       \/ /\ ~ghOnPath
          /\ \E ok \in BOOLEAN :
                /\ relLog' = Append(relLog, GhRun("go install gh", ok))
                /\ IF ok
                   THEN dPc' = "auth" /\ ghOnPath' = TRUE /\ UNCHANGED dErr
                   ELSE DevReturns("failed to install gh CLI: exit status 1")
                        /\ UNCHANGED ghOnPath
    /\ UNCHANGED <<dCmd, dVariant, dFlags, dRel, dCounts>>
    /\ UNCHANGED <<fPc, fI, fErr, ghLog, releaseTag, releaseTime, listOut, fDownloaded,
                   fSkipped, fTrace>>
    /\ UNCHANGED <<cfgVars, fsVars, buildVars, syncVars, exVars, wsVars, finVars, cmdVars>>

\* gh auth status
DevAuthStatus ==
    /\ dPc = "auth"
    /\ \E ok \in BOOLEAN :
          /\ relLog' = Append(relLog, GhRun("gh auth status", ok))
          /\ dPc' = IF loginNeeded(ok) THEN "login" ELSE afterAuth
    /\ UNCHANGED <<dCmd, dVariant, dFlags, dRel, dCounts, dErr>>
    /\ UNCHANGED <<cfgVars, fsVars, buildVars, fetchVars, syncVars, exVars,
                   wsVars, finVars, cmdVars>>

\* gh auth login, run on the terminal
DevAuthLogin ==
    /\ dPc = "login"
    /\ \E ok \in BOOLEAN :
          /\ relLog' = Append(relLog, GhRun("gh auth login", ok))
          /\ IF ok
             THEN dPc' = afterAuth /\ UNCHANGED dErr
             ELSE DevReturns("authentication failed: exit status 1")
    /\ UNCHANGED <<dCmd, dVariant, dFlags, dRel, dCounts>>
    /\ UNCHANGED <<cfgVars, fsVars, buildVars, fetchVars, syncVars, exVars,
                   wsVars, finVars, cmdVars>>

\* createGithubRelease: the binaries of the dist directory are enumerated
DevGlob ==
    /\ dPc = "glob"
    /\ IF noBinaries(GlobDist)
       THEN DevReturns("no binaries found in " \o DistDirAbs \o " (run dev-build first)")
       ELSE dPc' = "create" /\ UNCHANGED dErr
    /\ UNCHANGED <<dCmd, dVariant, dFlags, dRel, dCounts, relLog>>
    /\ UNCHANGED <<cfgVars, fsVars, buildVars, fetchVars, syncVars, exVars,
                   wsVars, finVars, cmdVars>>

\* the inline publish path: gh repo view, for the release notes
DevRepoView ==
    /\ dPc = "repo"
    /\ \E ok \in BOOLEAN :
          /\ relLog' = Append(relLog, GhRun("gh repo view", ok))
          /\ IF ok
             THEN dPc' = "create" /\ UNCHANGED dErr
             ELSE DevReturns("failed to get repo info: exit status 1")
    /\ UNCHANGED <<dCmd, dVariant, dFlags, dRel, dCounts>>
    /\ UNCHANGED <<cfgVars, fsVars, buildVars, fetchVars, syncVars, exVars,
                   wsVars, finVars, cmdVars>>

\* gh release create <version> [--prerelease] --title ... --notes ... <files>
DevReleaseCreate ==
    /\ dPc = "create"
    /\ \E ok \in BOOLEAN :
          LET releaseType == IF dRel.prerelease THEN "Development Release" ELSE "Release"
              title == IF dVariant = "helper" THEN dRel.version
                       ELSE releaseType \o " " \o dRel.version
          IN  /\ relLog' = Append(relLog,
                     [cmd |-> "gh release create", ok |-> ok,
                      version |-> dRel.version, prerelease |-> dRel.prerelease,
                      title |-> title, files |-> GlobDist])
              /\ DevReturns(IF ok THEN NoErr
                            ELSE IF dVariant = "helper"
                            THEN "release creation failed: exit status 1"
                            ELSE "failed to create release: exit status 1")
    /\ UNCHANGED <<dCmd, dVariant, dFlags, dRel, dCounts>>
    /\ UNCHANGED <<cfgVars, fsVars, buildVars, fetchVars, syncVars, exVars,
                   wsVars, finVars, cmdVars>>

\* no dev command is running
DevIdle ==
    /\ dPc = "idle"
    /\ dCmd = ""
    /\ dVariant = "helper"
    /\ dFlags = [skipBuild |-> FALSE, version |-> "", prerelease |-> FALSE]
    /\ dRel = [version |-> "", prerelease |-> FALSE]
    /\ dCounts = [succeeded |-> 0, failed |-> 0, skipped |-> 0]
    /\ dErr = "unset"
    /\ relLog = << >>

(***************************************************************************)
(* The examples command: ensureRepos, then listExamples, then the lines.   *)
(***************************************************************************)
otherThanCmd == <<cfgVars, fsVars, buildVars, fetchVars, syncVars, exVars, wsVars,
                  finVars, devVars>>

\* what os.ReadDir can find in the directory of a data repository
DirEntries ==
    { [name |-> "fire", isDir |-> TRUE],
      [name |-> "plate01", isDir |-> TRUE],
      [name |-> ".git", isDir |-> TRUE],
      [name |-> "README.md", isDir |-> FALSE] }

\* strings.HasPrefix(entry.Name(), ".")
DotNames == { ".git" }

\* collectExampleNames: the directories whose name does not begin with a dot
collectExampleNames(entries) ==
    { x.name : x \in { y \in entries : y.isDir /\ y.name \notin DotNames } }

\* examplesBySource: one group for every repository with isData
examplesBySource(ents) ==
    [n \in { r \in DOMAIN repos : repos[r].isData } |-> collectExampleNames(ents[n])]

\* sort.Strings on the lines that can be listed
SortedRefs ==
    << <<"deckfonts", "/", "fire">>, <<"deckfonts", "/", "plate01">>,
       <<"deckviz", "/", "fire">>, <<"deckviz", "/", "plate01">>,
       <<"dubois", "/", "fire">>, <<"dubois", "/", "plate01">> >>

\* listExamples: src + "/" + name for every name of every group, sorted
listExamples(ents) ==
    LET groups == examplesBySource(ents)
        all == { <<src, "/", name>> : src \in DOMAIN groups, name \in collectExampleNames(UNION {ents[n] : n \in DOMAIN ents}) }
        IsListed(ref) == ref[1] \in DOMAIN groups /\ ref[3] \in groups[ref[1]]
    IN  SelectSeq(SortedRefs, LAMBDA ref : ref \in all /\ IsListed(ref))

\* RunE of the examples command is entered
ExamplesCmdEnter ==
    /\ cPc = "idle"
    /\ sMode = "data"
    /\ cCmd' = "examples"
    /\ cPc' = "sync"
    /\ UNCHANGED <<cErr, listed, cleanVars, rcVars, procVars, otherThanCmd>>

\* ensureRepos runs
ExamplesCmdSync ==
    /\ cPc = "sync"
    /\ cCmd = "examples"
    /\ \/ sPc = "idle" /\ SyncStart
       \/ SyncNextRepo
       \/ RunGit
       \/ SyncReturn

\* ensureRepos returned: its error is returned, or the directories of the
\* data repositories are read and the sorted references are printed
ExamplesCmdList ==
    /\ cPc = "sync"
    /\ cCmd = "examples"
    /\ sPc = "done"
    /\ IF sErr # NoErr
       THEN cErr' = sErr /\ UNCHANGED listed
       ELSE /\ cErr' = NoErr
            /\ \E ents \in [{ r \in DOMAIN repos : repos[r].isData } -> SUBSET DirEntries] :
                  listed' = listExamples(ents)
    /\ cPc' = "done"
    /\ UNCHANGED <<cCmd, cleanVars, rcVars, procVars, otherThanCmd>>

(***************************************************************************)
(* The ensure command: ensureBins, then ensureRepos, then the message.     *)
(***************************************************************************)
\* RunE of the ensure command is entered
EnsureCmdEnter ==
    /\ cPc = "idle"
    /\ sMode = "data"
    /\ cCmd' = "ensure"
    /\ cPc' = "bins"
    /\ UNCHANGED <<cErr, listed, cleanVars, rcVars, procVars, otherThanCmd>>

\* ensureBins runs: it is downloadReleaseBinaries and nothing else
EnsureCmdBins ==
    /\ cPc = "bins"
    /\ NextFetch

\* ensureBins returned: its error is returned, or ensureRepos is called
EnsureCmdAfterBins ==
    /\ cPc = "bins"
    /\ fPc = "done"
    /\ IF fErr # NoErr
       THEN cErr' = fErr /\ cPc' = "done"
       ELSE cPc' = "sync" /\ UNCHANGED cErr
    /\ UNCHANGED <<cCmd, listed, cleanVars, rcVars, procVars, otherThanCmd>>

\* ensureRepos runs
EnsureCmdSync ==
    /\ cPc = "sync"
    /\ cCmd = "ensure"
    /\ \/ sPc = "idle" /\ SyncStart
       \/ SyncNextRepo
       \/ RunGit
       \/ SyncReturn

\* ensureRepos returned: its error is returned, or "Tooling and
\* repositories are up to date." is printed and nil returned
EnsureCmdReturn ==
    /\ cPc = "sync"
    /\ cCmd = "ensure"
    /\ sPc = "done"
    /\ cErr' = sErr
    /\ cPc' = "done"
    /\ UNCHANGED <<cCmd, listed, cleanVars, rcVars, procVars, otherThanCmd>>

(***************************************************************************)
(* dev-clean: the folders are visited in turn; one that exists is removed  *)
(* with all it holds.                                                      *)
(***************************************************************************)
\* the four constant folders, relative to the working directory
CacheDirs ==
    { Join(WorkDir, dataDir), Join(WorkDir, srcDir), Join(WorkDir, ".dist"),
      Join(WorkDir, ".fonts") }

\* the directories that may exist when dev-clean starts
CleanDirs == CacheDirs \cup { "/work/.data/deckviz", "/work/.src/deck", "/opt/deck" }

\* the directory a directory lies in ("" if it is none of CleanDirs)
ParentDir(d) ==
    CASE d = "/work/.data/deckviz" -> Join(WorkDir, dataDir)
      [] d = "/work/.src/deck" -> Join(WorkDir, srcDir)
      [] OTHER -> ""

\* os.RemoveAll(d) removes d and what lies in it
RemoveAll(d) == { x \in CleanDirs : x = d \/ ParentDir(x) = d }

\* the state of a clone whose directory is gone
NoClone == [git |-> FALSE, content |-> "none", origin |-> "none", sparse |-> << >>]

\* RunE of dev-clean is entered: the list of folders is made
DevCleanEnter ==
    /\ cPc = "idle"
    /\ cCmd' = "dev-clean"
    /\ cPc' = "clean"
    /\ IF cVariant = "constants"
       THEN /\ cTodo' = << Join(WorkDir, dataDir), Join(WorkDir, srcDir),
                           Join(WorkDir, ".dist"), Join(WorkDir, ".fonts") >>
            /\ cRest' = {}
       ELSE /\ cTodo' = << DistDirAbs, FontsDirAbs >>
            /\ cRest' = { repos[n].dir : n \in DOMAIN repos }
    /\ cLog' = {}
    /\ UNCHANGED <<cErr, listed, present, cVariant, rcVars, procVars, otherThanCmd>>

\* one turn of the loop: os.Stat, then os.RemoveAll if the folder exists
DevCleanStep ==
    /\ cPc = "clean"
    /\ \E folder \in (IF cTodo # << >> THEN {Head(cTodo)} ELSE cRest) :
          /\ cTodo' = IF cTodo # << >> THEN Tail(cTodo) ELSE cTodo
          /\ cRest' = IF cTodo # << >> THEN cRest ELSE cRest \ {folder}
          /\ IF folder \in present
             THEN \E ok \in BOOLEAN :
                    IF ok
                    THEN /\ present' = present \ RemoveAll(folder)
                         /\ disk' = [n \in DOMAIN disk |->
                                       IF repos[n].dir \in RemoveAll(folder)
                                       THEN NoClone ELSE disk[n]]
                         /\ distExists' = (distExists /\ DistDirAbs \notin RemoveAll(folder))
                         /\ dist' = IF DistDirAbs \in RemoveAll(folder) THEN << >> ELSE dist
                         /\ srcDirExists' =
                               (srcDirExists /\ Join(WorkDir, srcDir) \notin RemoveAll(folder))
                         /\ cLog' = cLog \cup {[dir |-> folder, did |-> "removed"]}
                         /\ UNCHANGED <<cPc, cErr>>
                    ELSE /\ cErr' = "failed to remove " \o folder \o ": " \o "permission denied"
                         /\ cPc' = "done"
                         /\ cLog' = cLog \cup {[dir |-> folder, did |-> "failed"]}
                         /\ UNCHANGED <<present, disk, distExists, dist, srcDirExists>>
             ELSE /\ cLog' = cLog \cup {[dir |-> folder, did |-> "skipped"]}
                  /\ UNCHANGED <<cPc, cErr, present, disk, distExists, dist, srcDirExists>>
    /\ UNCHANGED <<cCmd, listed, cVariant, rcVars, procVars>>
    /\ UNCHANGED <<toolchain, host, buildVars, fetchVars, exVars, finVars, devVars>>
    /\ UNCHANGED <<repos, sPc, sMode, sTodo, sRepo, sPlan, sErr, gitLog, sHadGit, sRun, sPrev>>
    /\ UNCHANGED <<wPc, wTodo, wDirs, wErr, goWork>>

\* the loop is over: the closing line is printed and nil returned
DevCleanReturn ==
    /\ cPc = "clean"
    /\ cTodo = << >>
    /\ cRest = {}
    /\ cErr' = NoErr
    /\ cPc' = "done"
    /\ UNCHANGED <<cCmd, listed, cleanVars, rcVars, procVars, otherThanCmd>>

(***************************************************************************)
(* setup.go: ensureShellSnippet.  A file is a sequence of pieces: a line   *)
(* break, the text of the snippet between its first and last line break,   *)
(* or other text.                                                          *)
(***************************************************************************)
RcPieces == { "nl", "body", "text" }

\* the snippet of defaultRCConfig: "\n# decktool completions\n...\n"
Snippet == <<"nl", "body", "nl">>

\* the places where the snippet occurs in data
Occurrences(data) ==
    { i \in 1..(Len(data) - Len(Snippet) + 1) :
        SubSeq(data, i, i + Len(Snippet) - 1) = Snippet }

\* mutant of Contains: the snippet is never found
ContainsNever(data) == FALSE

\* strings.Contains(string(data), snippet)
Contains(data) == Occurrences(data) # {}

\* what a write that failed may have put down: nothing or a part of the snippet
Partials == { SubSeq(Snippet, 1, k) : k \in 0..(Len(Snippet) - 1) }

\* return err (or nil) from ensureShellSnippet
RcReturns(err) ==
    /\ rcErr' = err
    /\ rcCalls' = rcCalls + 1
    /\ rcOk' = IF err = NoErr THEN rcOk + 1 ELSE rcOk

\* one call of ensureShellSnippet(rcPath, snippet)
EnsureShellSnippet ==
    /\ rcCalls < MaxCalls
    /\ \/ \* expandPath or os.ReadFile fails (not with ErrNotExist)
          /\ RcReturns("read: permission denied")
          /\ UNCHANGED rcFile
       \/ \* the file does not exist: MkdirAll, then WriteFile
          /\ ~rcFile.exists
          /\ \/ /\ RcReturns("mkdir: permission denied")
                /\ UNCHANGED rcFile
             \/ /\ RcReturns(NoErr)
                /\ rcFile' = [exists |-> TRUE, data |-> Snippet]
             \/ /\ RcReturns("write: no space left on device")
                /\ \/ UNCHANGED rcFile
                   \/ \E part \in Partials : rcFile' = [exists |-> TRUE, data |-> part]
       \/ \* the file holds the snippet already
          /\ rcFile.exists
          /\ Contains(rcFile.data)
          /\ RcReturns(NoErr)
          /\ UNCHANGED rcFile
       \/ \* the snippet is appended
          /\ rcFile.exists
          /\ ~Contains(rcFile.data)
          /\ \/ /\ RcReturns("open: permission denied")
                /\ UNCHANGED rcFile
             \/ /\ RcReturns(NoErr)
                /\ rcFile' = [rcFile EXCEPT !.data = @ \o Snippet]
             \/ /\ RcReturns("write: no space left on device")
                /\ \E part \in Partials : rcFile' = [rcFile EXCEPT !.data = @ \o part]
    /\ UNCHANGED <<rcOrig, cPc, cCmd, cErr, listed, cleanVars, procVars, otherThanCmd>>

(***************************************************************************)
(* The child processes of a run.  Every external command is issued with    *)
(* cmd.Run() or cmd.Output(): the process is started and the caller waits  *)
(* for it to exit.                                                         *)
(***************************************************************************)
\* a command to issue, and what the caller does when it succeeded or failed:
\* go on ("next"), pass over the command after it ("skip"), or return ("abort")
Item(prog, what, onOk, onFail) ==
    [prog |-> prog, what |-> what, onOk |-> onOk, onFail |-> onFail]

\* gitCloneOrUpdate on one repository: runGit for every command, the first
\* error is returned
GitItems(n) ==
    LET plan == gitCloneOrUpdate(repos[n], disk[n].git)
    IN  [i \in 1..Len(plan) |-> Item("git", GitOp(plan[i]), "next", "abort")]

\* ensureRepos / ensureBuildRepos: the repositories one after the other
RECURSIVE SyncItems(_)
SyncItems(order) ==
    IF order = << >> THEN << >>
    ELSE GitItems(Head(order)) \o SyncItems(Tail(order))

\* downloadReleaseBinaries: list, view, then a download for every binary (a
\* failed download is a warning)
FetchItems ==
    << Item("gh", "release list", "next", "abort"),
       Item("gh", "release view", "next", "abort") >>
    \o [i \in 1..Len(toolchain) |-> Item("gh", "release download", "next", "next")]

\* buildAll: binary by binary, target by target; go build is run for the
\* pairs that pass the static check, and a failed build is a result
BuildItems ==
    LET n == Len(buildTargets)
        pairs == [k \in 1..(Len(toolchain) * n) |->
                    [spec |-> toolchain[((k - 1) \div n) + 1],
                     target |-> buildTargets[((k - 1) % n) + 1]]]
        built == SelectSeq(pairs, LAMBDA pr : Supported(pr.spec, pr.target))
    IN  [k \in 1..Len(built) |->
            Item("go", "build " \o buildFilename(built[k].spec.name, built[k].target),
                 "next", "next")]

\* runExamples on one example: dshlint, then decksh
ExampleItems ==
    << Item("dshlint", "lint", "next", "abort"),
       Item("decksh", "render", "next", "abort") >>

\* the view command: ebdeck on the rendered file
ViewItems == << Item("ebdeck", "view", "next", "abort") >>

\* the publish path: auth status, auth login if that failed, repo view,
\* release create
PublishItems ==
    << Item("gh", "auth status", "skip", "next"),
       Item("gh", "auth login", "next", "abort"),
       Item("gh", "repo view", "next", "abort"),
       Item("gh", "release create", "next", "abort") >>

\* the commands of one run of a subcommand if none of them aborts it
RunPlan(cmd, order) ==
    CASE cmd = "examples" -> SyncItems(order)
      [] cmd = "ensure" -> FetchItems \o SyncItems(order)
      [] cmd = "run" -> FetchItems \o SyncItems(order) \o ExampleItems
      [] cmd = "view" -> FetchItems \o SyncItems(order) \o ExampleItems \o ViewItems
      [] cmd = "dev-build" -> SyncItems(order) \o BuildItems
      [] cmd = "dev-release" -> BuildItems \o PublishItems

\* mutant of RunWaits: the process is started and not waited for
RunWaitsNot == FALSE

\* cmd.Run() and cmd.Output() return when the process has exited
RunWaits == TRUE

\* the caller reaches its next command: the process is started
ChildStart ==
    /\ pPc = "next"
    /\ pQueue # << >>
    /\ pStarted' = pStarted + 1
    /\ pRunning' = pRunning \cup { [id |-> pStarted + 1, item |-> Head(pQueue)] }
    /\ pQueue' = Tail(pQueue)
    /\ pLog' = Append(pLog, [ev |-> "start", id |-> pStarted + 1, prog |-> Head(pQueue).prog])
    /\ pPc' = IF RunWaits THEN "wait" ELSE "next"
    /\ UNCHANGED <<pCmd, cPc, cCmd, cErr, listed, cleanVars, rcVars, otherThanCmd>>

\* a process exits with status 0 or not; the caller acts on the result
ChildExit ==
    /\ \E c \in pRunning, ok \in BOOLEAN :
          LET todo == IF ok THEN c.item.onOk ELSE c.item.onFail
          IN  /\ pRunning' = pRunning \ {c}
              /\ pLog' = Append(pLog, [ev |-> "exit", id |-> c.id, prog |-> c.item.prog])
              /\ pQueue' = CASE todo = "abort" -> << >>
                             [] todo = "skip" /\ pQueue # << >> -> Tail(pQueue)
                             [] OTHER -> pQueue
    /\ pPc' = IF pPc = "wait" THEN "next" ELSE pPc
    /\ UNCHANGED <<pCmd, pStarted, cPc, cCmd, cErr, listed, cleanVars, rcVars, otherThanCmd>>

\* nothing is left to issue: RunE returns
RunReturn ==
    /\ pPc = "next"
    /\ pQueue = << >>
    /\ pPc' = "done"
    /\ UNCHANGED <<pCmd, pQueue, pRunning, pStarted, pLog, cPc, cCmd, cErr, listed,
                   cleanVars, rcVars, otherThanCmd>>

\* no run is looked at
ProcIdle ==
    /\ pPc = "done"
    /\ pCmd = ""
    /\ pQueue = << >>
    /\ pRunning = {}
    /\ pStarted = 0
    /\ pLog = << >>

\* ensureShellSnippet was not called and there is no rc file
RcIdle ==
    /\ rcFile = [exists |-> FALSE, data |-> << >>]
    /\ rcOrig = [exists |-> FALSE, data |-> << >>]
    /\ rcCalls = 0
    /\ rcOk = 0
    /\ rcErr = "unset"

\* none of these subcommands is running
CommandIdle ==
    /\ cPc = "idle"
    /\ cCmd = ""
    /\ cErr = "unset"
    /\ listed = << >>
    /\ present = {}
    /\ cVariant = "constants"
    /\ cTodo = << >>
    /\ cRest = {}
    /\ cLog = {}

CmdIdle == CommandIdle /\ RcIdle /\ ProcIdle

vars == <<cfgVars, fsVars, buildVars, fetchVars, syncVars, exVars, wsVars,
          finVars, devVars, cmdVars>>

\* cfg.toolchain of the model: MaxBins consecutive entries of the static list
ToolchainWindows ==
    { SubSeq(AllBins, s, s + MaxBins - 1) : s \in 1..(Len(AllBins) - MaxBins + 1) }

InitCfg ==
    /\ toolchain \in ToolchainWindows
    /\ host \in Hosts

InitBuild ==
    /\ bPc = "idle"
    /\ bI = 1
    /\ bJ = 1
    /\ results = <<>>
    /\ bErr = "unset"
    /\ bTrace = <<>>
    /\ bFaults = 0

InitFsEmpty ==
    /\ distExists \in BOOLEAN
    /\ dist = << >>

NextBuild ==
    \/ BuildAllStart
    \/ BuildAllStep
    \/ BuildAllReturn

BuildIdle == InitBuild

InitSpecBuild ==
    InitCfg /\ InitFsEmpty /\ InitBuild /\ FetchIdle /\ SyncIdle /\
    ExamplesIdle /\ WorkspaceIdle /\ FinalizeIdle /\ DevIdle /\ CmdIdle

SpecBuild == InitSpecBuild /\ [][NextBuild]_vars

InitSpecFetch ==
    InitCfg /\ InitFsFetch /\ InitFetch /\ BuildIdle /\ SyncIdle /\
    ExamplesIdle /\ WorkspaceIdle /\ FinalizeIdle /\ DevIdle /\ CmdIdle

\* the configuration and dist directory, when neither is looked at
CfgIdle ==
    /\ toolchain = SubSeq(AllBins, 1, MaxBins)
    /\ host = [os |-> "linux", arch |-> "amd64"]
    /\ distExists = FALSE
    /\ dist = << >>

InitSpecSync ==
    CfgIdle /\ BuildIdle /\ FetchIdle /\ InitSync /\ ExamplesIdle /\
    WorkspaceIdle /\ FinalizeIdle /\ DevIdle /\ CmdIdle

SpecSync == InitSpecSync /\ [][NextSync]_vars

InitSpecExamples ==
    BuildIdle /\ FetchIdle /\ InitExamples /\ WorkspaceIdle /\ FinalizeIdle /\
    DevIdle /\ CmdIdle

SpecExamples == InitSpecExamples /\ [][NextExamples]_vars

InitSpecWorkspace ==
    CfgIdle /\ BuildIdle /\ FetchIdle /\ ExamplesIdle /\ InitWorkspace /\
    FinalizeIdle /\ DevIdle /\ CmdIdle

SpecWorkspace == InitSpecWorkspace /\ [][NextWorkspace]_vars

InitSpecFinalize ==
    CfgIdle /\ BuildIdle /\ FetchIdle /\ SyncIdle /\ ExamplesIdle /\
    WorkspaceIdle /\ InitFinalize /\ DevIdle /\ CmdIdle

SpecFinalize == InitSpecFinalize /\ [][NextFinalize]_vars

SpecFetch == InitSpecFetch /\ [][NextFetch]_vars

\* buildBinary on its own: every binSpec the type admits, one per run, as a
\* one-entry toolchain
BinSpecInputs ==
    [name : {"decksh", "ebdeck"}, repo : {"r"},
     wasmSupport : BOOLEAN, wasiSupport : BOOLEAN, requiresUI : BOOLEAN]

InitAnyBin ==
    /\ toolchain \in { <<s>> : s \in BinSpecInputs }
    /\ host \in Hosts

InitSpecBuildBinary ==
    InitAnyBin /\ InitFsEmpty /\ InitBuild /\ FetchIdle /\ SyncIdle /\
    ExamplesIdle /\ WorkspaceIdle /\ FinalizeIdle /\ DevIdle /\ CmdIdle

SpecBuildBinary == InitSpecBuildBinary /\ [][NextBuild]_vars

\* the toolchains of the dev commands' runs: the windows that hold a binary
\* built for every target and one that needs the UI
DevToolchains ==
    { w \in ToolchainWindows : w[1].wasmSupport /\ ~w[Len(w)].wasmSupport }

InitCfgDev ==
    /\ toolchain \in DevToolchains
    /\ host \in Hosts

\* dist before a dev command: absent, empty, or holding a file an earlier
\* build left
InitFsDev ==
    /\ dist \in { << >>, [f \in {"decksh-wasm.wasm"} |-> [mtime |-> 1, exec |-> TRUE]] }
    /\ distExists \in BOOLEAN
    /\ DOMAIN dist # {} => distExists

\* the code repositories before dev-build: none cloned yet, or all current
InitSyncDev ==
    /\ repos = [n \in RepoNames |->
                  LET r == CHOOSE x \in { RepoTable[i] : i \in 1..Len(RepoTable) } : x.name = n
                  IN  r @@ [depth |-> 1, sparse |-> << >>]]
    /\ sMode = "code"
    /\ \E cloned \in BOOLEAN :
          disk = [n \in RepoNames |->
                    IF cloned /\ ~repos[n].isData
                    THEN [git |-> TRUE, content |-> RemoteTip, origin |-> RemoteTip,
                          sparse |-> << >>]
                    ELSE [git |-> FALSE, content |-> "none", origin |-> "none",
                          sparse |-> << >>]]
    /\ sPc = "idle"
    /\ sTodo = {}
    /\ sRepo = ""
    /\ sPlan = << >>
    /\ sErr = "unset"
    /\ gitLog = << >>
    /\ sHadGit = [n \in {} |-> FALSE]
    /\ sRun = 0
    /\ sPrev = [ran |-> FALSE, err |-> "unset", disk |-> disk]

\* .src before dev-build: it exists once a clone or a go.work lies in it
InitWorkspaceDev ==
    /\ goWork \in GoWorkBefore
    /\ srcDirExists = (goWork.exists \/ \E n \in RepoNames : disk[n].git)
    /\ wPc = "idle"
    /\ wTodo = {}
    /\ wDirs = << >>
    /\ wErr = "unset"

InitDev ==
    /\ dPc = "idle"
    /\ dCmd = ""
    /\ dVariant \in {"helper", "inline"}
    /\ dFlags = [skipBuild |-> FALSE, version |-> "", prerelease |-> FALSE]
    /\ dRel = [version |-> "", prerelease |-> FALSE]
    /\ dCounts = [succeeded |-> 0, failed |-> 0, skipped |-> 0]
    /\ dErr = "unset"
    /\ relLog = << >>

NextDevBuild ==
    \/ DevBuildEnter
    \/ DevSyncStep
    \/ DevAfterSync
    \/ DevWorkspaceStep
    \/ DevAfterWorkspace
    \/ DevBuildStep
    \/ DevBuildSummary

InitSpecDevBuild ==
    InitCfgDev /\ host.os = "linux" /\ InitFsEmpty /\ InitBuild /\ FetchIdle
    /\ InitSyncDev /\ ExamplesIdle /\ InitWorkspaceDev /\ FinalizeIdle /\
    DevIdle /\ CmdIdle

SpecDevBuild == InitSpecDevBuild /\ [][NextDevBuild]_vars

NextDevRelease ==
    \/ DevReleaseEnter
    \/ DevBuildStep
    \/ DevReleaseGate
    \/ DevReleaseVersion
    \/ DevEnsureGhCli
    \/ DevAuthStatus
    \/ DevAuthLogin
    \/ DevGlob
    \/ DevRepoView
    \/ DevReleaseCreate

InitSpecDevRelease ==
    InitCfgDev /\ InitFsDev /\ InitBuild /\ InitFetch /\ SyncIdle /\
    ExamplesIdle /\ WorkspaceIdle /\ FinalizeIdle /\ InitDev /\ CmdIdle

SpecDevRelease == InitSpecDevRelease /\ [][NextDevRelease]_vars

\* the two paths that need gh, one command per run: `ensure` (the fetch
\* path) or dev-release (the publish path)
InitSpecGhPaths ==
    /\ InitSpecFetch \/ InitSpecDevRelease
    /\ toolchain \in DevToolchains
    /\ host.os = "linux"
    /\ Cardinality(DOMAIN dist) <= 1

NextGhPaths ==
    \/ dPc = "idle" /\ NextFetch
    \/ fPc = "idle" /\ NextDevRelease

SpecGhPaths == InitSpecGhPaths /\ [][NextGhPaths]_vars

\* parseExample and normalizeExampleName on their own: examples holds a raw
\* reference, then what normalizeExampleName makes of it, then what it makes
\* of that
NormalizeTokens ==
    {dataDir, "/", " ", "fire", "deckviz", "dubois-data-portraits", "nosuch"}

\* a token is a word if it is neither the slash nor white space
IsWord(t) == t \notin {"/", " "}

\* the token sequences that are the reading of a string: no two words touch
NormalizeInputs ==
    { r \in UNION { [1..n -> NormalizeTokens] : n \in 0..MaxTokens } :
        \A i \in 1..(Len(r) - 1) : ~(IsWord(r[i]) /\ IsWord(r[i + 1])) }

\* normalizeExampleName is applied to the last reference
NormalizeStep ==
    /\ Len(examples) < 3
    /\ examples' = Append(examples, normalizeExampleTokens(examples[Len(examples)]))
    /\ UNCHANGED <<ePc, eI, eCur, eResults, eRet, env, eOld, eLog, eTrace, files,
                   onPath, inGoBin, otherThanExamples>>

InitNormalize ==
    /\ examples \in { <<raw>> : raw \in NormalizeInputs }
    /\ repos = DefaultRepos
    /\ disk = [n \in DOMAIN DefaultRepos |->
                 [git |-> TRUE, content |-> RemoteTip, origin |-> RemoteTip, sparse |-> << >>]]
    /\ SyncControlIdle
    /\ files = {}
    /\ env = [set |-> FALSE, val |-> ""]
    /\ onPath = {}
    /\ inGoBin = {}
    /\ ePc = "idle"
    /\ eI = 1
    /\ eCur = [source |-> "", name |-> "", dir |-> ""]
    /\ eResults = << >>
    /\ eRet = [nil |-> TRUE, results |-> << >>, err |-> "unset"]
    /\ eOld = ""
    /\ eLog = << >>
    /\ eTrace = << >>

InitSpecNormalize ==
    CfgIdle /\ BuildIdle /\ FetchIdle /\
    InitNormalize /\ WorkspaceIdle /\ FinalizeIdle /\ DevIdle /\ CmdIdle

SpecNormalize == InitSpecNormalize /\ [][NormalizeStep]_vars

\* the examples command on the data repositories
NextExamplesCmd ==
    \/ ExamplesCmdEnter
    \/ ExamplesCmdSync
    \/ ExamplesCmdList

\* cfg.repos as newConfig leaves it (every data repository, the fonts
\* repository among them) and the clones before the command
InitSyncData ==
    /\ repos = DefaultRepos
    /\ sMode = "data"
    /\ \E d \in [{ n \in DOMAIN DefaultRepos : DefaultRepos[n].isData } -> DiskStates] :
          disk = [n \in DOMAIN DefaultRepos |->
                    IF DefaultRepos[n].isData THEN d[n]
                    ELSE [git |-> FALSE, content |-> "none", origin |-> "none",
                          sparse |-> << >>]]
    /\ SyncControlIdle

InitSpecExamplesCmd ==
    CfgIdle /\ BuildIdle /\ FetchIdle /\ InitSyncData /\ ExamplesIdle /\
    WorkspaceIdle /\ FinalizeIdle /\ DevIdle /\ CmdIdle

SpecExamplesCmd == InitSpecExamplesCmd /\ [][NextExamplesCmd]_vars

\* the ensure command with gh installed and nothing fetched yet; the data
\* repositories are all in the same state
NextEnsureCmd ==
    \/ EnsureCmdEnter
    \/ EnsureCmdBins
    \/ EnsureCmdAfterBins
    \/ EnsureCmdSync
    \/ EnsureCmdReturn

InitSpecEnsureCmd ==
    /\ toolchain = SubSeq(AllBins, 1, MaxBins)
    /\ host = [os |-> "linux", arch |-> "amd64"]
    /\ distExists \in BOOLEAN
    /\ dist = << >>
    /\ InitFetch /\ BuildIdle /\ InitSyncData /\ ExamplesIdle
    /\ WorkspaceIdle /\ FinalizeIdle /\ DevIdle /\ CmdIdle
    /\ ghOnPath
    /\ \E d \in DiskStates : \A n \in DOMAIN repos : repos[n].isData => disk[n] = d

SpecEnsureCmd == InitSpecEnsureCmd /\ [][NextEnsureCmd]_vars

\* dev-clean: either copy of the command, deck in its default directory or
\* moved with DECK_DIR, any of the directories present
NextDevClean ==
    \/ DevCleanEnter
    \/ DevCleanStep
    \/ DevCleanReturn

InitDevClean ==
    /\ \E deckDir \in { "/work/.src/deck", "/opt/deck" } :
          repos = [n \in RepoNames |->
                     IF n = "deck" THEN [DefaultRepos[n] EXCEPT !.dir = deckDir]
                     ELSE DefaultRepos[n]]
    /\ present \in { P \in SUBSET CleanDirs :
                       \A d \in P : ParentDir(d) # "" => ParentDir(d) \in P }
    /\ disk = [n \in DOMAIN repos |->
                 IF repos[n].dir \in present
                 THEN [git |-> TRUE, content |-> RemoteTip, origin |-> RemoteTip,
                       sparse |-> << >>]
                 ELSE NoClone]
    /\ SyncControlIdle
    /\ toolchain = SubSeq(AllBins, 1, MaxBins)
    /\ host = [os |-> "linux", arch |-> "amd64"]
    /\ distExists = (DistDirAbs \in present)
    /\ dist = << >>
    /\ wPc = "idle"
    /\ wTodo = {}
    /\ wDirs = << >>
    /\ wErr = "unset"
    /\ srcDirExists = (Join(WorkDir, srcDir) \in present)
    /\ goWork = [exists |-> FALSE, header |-> "", uses |-> << >>]
    /\ cPc = "idle"
    /\ cCmd = ""
    /\ cErr = "unset"
    /\ listed = << >>
    /\ cVariant \in {"constants", "config"}
    /\ cTodo = << >>
    /\ cRest = {}
    /\ cLog = {}

InitSpecDevClean ==
    BuildIdle /\ FetchIdle /\ InitDevClean /\ ExamplesIdle /\ FinalizeIdle /\ DevIdle /\
    RcIdle /\ ProcIdle

SpecDevClean == InitSpecDevClean /\ [][NextDevClean]_vars

\* ensureShellSnippet on its own: the rc file is absent or holds any pieces
InitSnippet ==
    /\ rcFile \in { [exists |-> FALSE, data |-> << >>] } \cup
                  { [exists |-> TRUE, data |-> d] :
                      d \in UNION { [1..n -> RcPieces] : n \in 0..MaxRcLen } }
    /\ rcOrig = rcFile
    /\ rcCalls = 0
    /\ rcOk = 0
    /\ rcErr = "unset"

InitSpecSnippet ==
    CfgIdle /\ BuildIdle /\ FetchIdle /\ SyncIdle /\ ExamplesIdle /\ WorkspaceIdle /\
    FinalizeIdle /\ DevIdle /\ CommandIdle /\ InitSnippet /\ ProcIdle

SpecSnippet == InitSpecSnippet /\ [][EnsureShellSnippet]_vars

\* one run of a subcommand at the level of its child processes
NextChildren ==
    \/ ChildStart
    \/ ChildExit
    \/ RunReturn

\* the orders in which a range over the repository map can visit names
Orders(names) ==
    { o \in [1..Cardinality(names) -> names] :
        \A i, j \in 1..Cardinality(names) : o[i] = o[j] => i = j }

InitChildren ==
    /\ pPc = "next"
    /\ pCmd \in (IF sMode = "data" THEN {"examples", "ensure", "run", "view"}
                 ELSE {"dev-build", "dev-release"})
    /\ \E order \in Orders({ n \in DOMAIN repos : repos[n].isData = (sMode = "data") }) :
          pQueue = RunPlan(pCmd, order)
    /\ pRunning = {}
    /\ pStarted = 0
    /\ pLog = << >>

InitSpecChildren ==
    CfgIdle /\ BuildIdle /\ FetchIdle /\ InitSync /\ ExamplesIdle /\ WorkspaceIdle /\
    FinalizeIdle /\ DevIdle /\ CommandIdle /\ RcIdle /\ InitChildren

SpecChildren == InitSpecChildren /\ [][NextChildren]_vars

(***************************************************************************)
(* Claims about buildBinary and buildAll.                                  *)
(***************************************************************************)
\* the binSpec and target the k-th buildBinary call of the matrix was given
SpecOfCall(k) == toolchain[((k - 1) \div Len(buildTargets)) + 1]
TargetOfCall(k) == buildTargets[((k - 1) % Len(buildTargets)) + 1]

\* C2 (as stated): every BuildResult has either a non-empty path and a nil
\* error, or an empty path and a non-nil error; never both, never neither.
C2_PathXorErr ==
    \A k \in 1..Len(results) :
        \/ results[k].path # "" /\ results[k].err = NoErr
        \/ results[k].path = "" /\ results[k].err # NoErr

\* C2 (amended): a BuildResult is never empty of both; on success it has a
\* non-empty path and a nil error; for an unsupported target it has an empty
\* path and a non-nil error; on a mkdir, abs-path or toolchain failure it has
\* BOTH the intended output path and a non-nil error.
C2_PathSetWhenAttempted ==
    \A k \in 1..Len(results) :
        LET r == results[k]
            attempted == Supported(SpecOfCall(k), TargetOfCall(k))
        IN  /\ ~(r.path = "" /\ r.err = NoErr)
            /\ (r.path # "") <=> attempted
            /\ ~attempted => r.err # NoErr
            /\ (r.err = NoErr) <=> (bTrace[k].wrote # "")
            /\ r.err = NoErr => r.path = DistDirAbs \o "/" \o bTrace[k].wrote

\* C2 witness: a toolchain failure left a result with both path and error,
\* next to a successful result and an unsupported one.
C2_Witness ==
    /\ \E k \in 1..Len(results) :
          results[k].err = "build failed: exit status 1" /\ results[k].path # ""
    /\ \E k \in 1..Len(results) : results[k].err = NoErr /\ results[k].path # ""
    /\ \E k \in 1..Len(results) : results[k].err # NoErr /\ results[k].path = ""

\* C3: buildAll returns exactly one BuildResult per (binary, target) pair, in
\* binary-major order, with a nil error; a failed or unsupported pair never
\* keeps a later pair from being attempted.
C3_OneResultPerPair ==
    /\ \A k \in 1..Len(results) :
          /\ results[k].binary = SpecOfCall(k).name
          /\ results[k].target = TargetOfCall(k)
    /\ bPc = "loop" => Len(results) = (bI - 1) * Len(buildTargets) + (bJ - 1)
    /\ bPc = "loop" /\ Len(results) < Len(toolchain) * Len(buildTargets)
          => ENABLED BuildAllStep /\ ~ENABLED BuildAllReturn
    /\ bPc = "done" =>
          /\ Len(results) = Len(toolchain) * Len(buildTargets)
          /\ bErr = NoErr

\* C3 witness: the matrix is complete although an early pair failed and a
\* later one was built.
C3_Witness ==
    /\ bPc = "done"
    /\ Len(results) = MaxBins * Len(buildTargets)
    /\ results[1].err # NoErr
    /\ results[Len(results) - 2].err = NoErr

\* C4: for an unsupported (binary, target) pair buildBinary returns the error
\* naming the missing capability, and neither creates the output directory
\* nor invokes the toolchain nor produces an output file.
C4_UnsupportedIsStatic ==
    \A k \in 1..Len(results) :
        LET spec == SpecOfCall(k)
            target == TargetOfCall(k)
            flag == IF target = targetWASM THEN spec.wasmSupport ELSE spec.wasiSupport
        IN  (target \in {targetWASM, targetWASI} /\ ~flag) =>
              /\ results[k].err =
                    (IF target = targetWASM THEN "WASM" ELSE "WASI")
                    \o " not supported (requires "
                    \o (IF spec.requiresUI THEN "UI/graphics" ELSE "platform support")
                    \o ")"
              /\ results[k].path = ""
              /\ ~bTrace[k].mkdir
              /\ ~bTrace[k].go
              /\ bTrace[k].wrote = ""
              /\ buildFilename(spec.name, target) \notin DOMAIN dist

\* C4 witness: a binary that needs no UI but lacks WASI support was refused
\* for WASI, with the directory still absent.
C4_Witness ==
    /\ Len(results) = 3
    /\ ~toolchain[1].requiresUI /\ ~toolchain[1].wasiSupport /\ ~toolchain[1].wasmSupport
    /\ results[3].err = "WASI not supported (requires platform support)"
    /\ results[2].err = "WASM not supported (requires platform support)"
    /\ results[1].err = "mkdir: permission denied"
    /\ ~distExists

(***************************************************************************)
(* Claims about downloadReleaseBinaries.                                   *)
(***************************************************************************)
\* the files `gh release download` was issued for, in order
DownloadsIssued ==
    LET dl == SelectSeq(ghLog, LAMBDA c : c.cmd = "gh release download")
    IN  [k \in 1..Len(dl) |-> dl[k].arg]

\* the files the loop decided to download, in order
DownloadsDecided ==
    LET dl == SelectSeq(fTrace, LAMBDA t : t.did = "download")
    IN  [k \in 1..Len(dl) |-> dl[k].file]

\* C5 (as stated): with a release timestamp, a binary whose file exists is
\* skipped iff its local modification time is newer than OR EQUAL TO the
\* release time; in every other case it is downloaded and marked executable.
C5_SkipIffNotOlder ==
    \A k \in 1..Len(fTrace) :
        LET t == fTrace[k]
        IN  t.relTime # ZeroTime =>
              /\ t.existed => ((t.did = "skip") <=> (t.mtime >= t.relTime))
              /\ ~t.existed => t.did = "download"
              /\ (t.did = "download" /\ t.dlOk) => t.chmod # "none"

\* C5 (amended): with a release timestamp, a binary whose file exists is
\* skipped iff its local modification time is STRICTLY newer than the release
\* time; in every other case (file absent, local older, or local equal) the
\* download command is issued for it and, when the download succeeds, chmod
\* is applied to the file.
C5_SkipIffStrictlyNewer ==
    /\ \A k \in 1..Len(fTrace) :
        LET t == fTrace[k]
        IN  t.relTime # ZeroTime =>
              /\ (t.did = "skip") <=> (t.existed /\ t.mtime > t.relTime)
              /\ (t.did = "download") <=> (~t.existed \/ t.mtime <= t.relTime)
              /\ (t.did = "download" /\ t.dlOk) => t.chmod # "none"
              /\ t.chmod = "ok" => (t.file \in DOMAIN dist /\ dist[t.file].exec)
              /\ t.did = "skip" => dist[t.file].mtime = t.mtime
    /\ DownloadsIssued = DownloadsDecided

\* C5 witness: one binary skipped because it is newer than the release, one
\* with exactly the release's time downloaded and made executable.
C5_Witness ==
    /\ fPc = "done" /\ fErr = NoErr /\ releaseTime # ZeroTime
    /\ \E k \in 1..Len(fTrace) :
          fTrace[k].existed /\ fTrace[k].mtime > releaseTime /\ fTrace[k].did = "skip"
    /\ \E k \in 1..Len(fTrace) :
          /\ fTrace[k].existed /\ fTrace[k].mtime = releaseTime
          /\ fTrace[k].did = "download" /\ fTrace[k].chmod = "ok"

\* C6 (as stated): when the release has no obtainable timestamp, no binary is
\* skipped because a local file exists: every binary is downloaded.
C6_NoTimestampDownloadsAll ==
    \A k \in 1..Len(fTrace) :
        fTrace[k].relTime = ZeroTime => fTrace[k].did = "download"

OpsOf(n) ==
    LET mine == SelectSeq(gitLog, LAMBDA c : c.repo = n)
    IN  [k \in 1..Len(mine) |-> GitOp(mine[k].args)]

\* gitCloneOrUpdate has returned nil for repository n in this run
Synced(n) ==
    /\ n \in DOMAIN sHadGit
    /\ \/ n # sRepo
       \/ sPc = "range"
       \/ sPc = "done" /\ sErr = NoErr

IsPrefix(a, b) == Len(a) <= Len(b) /\ a = SubSeq(b, 1, Len(a))

\* C8: synchronization aborts on the first failing git command: the error is
\* returned unchanged and no further git command is issued, neither for that
\* repository nor for one not yet processed.
C8_FirstGitFailureAborts ==
    /\ \A k \in 1..Len(gitLog) :
          gitLog[k].err # NoErr =>
            /\ k = Len(gitLog)
            /\ sPc = "done"
            /\ sErr = gitLog[k].err
    /\ (sPc = "done" /\ sErr # NoErr) =>
          /\ gitLog # << >>
          /\ gitLog[Len(gitLog)].err = sErr
          /\ ~ENABLED RunGit /\ ~ENABLED SyncNextRepo

\* C8 witness: a command failed with work left over, both in the current
\* repository and in repositories not yet reached.
C8_Witness ==
    /\ sPc = "done"
    /\ sErr = "exit status 128"
    /\ Len(gitLog) >= 2
    /\ Len(sPlan) >= 2
    /\ sTodo # {}

\* C9: per repository, the update sequence (fetch with the configured depth
\* and filter, checkout of the branch, hard reset to origin/<branch>) runs iff
\* the directory holds .git, otherwise a single clone; with a sparse list,
\* sparse-checkout set is the last step of either path.
C9_UpdateIffGitElseClone ==
    \A n \in DOMAIN sHadGit :
        LET r == repos[n]
            ops == OpsOf(n)
            sparseOn == Len(r.sparse) > 0
            expected ==
                IF sHadGit[n]
                THEN <<"fetch", "checkout", "reset">>
                        \o (IF sparseOn THEN <<"sparse-checkout set">> ELSE << >>)
                ELSE <<"clone">>
                        \o (IF sparseOn THEN <<"sparse-checkout init", "sparse-checkout set">>
                            ELSE << >>)
            mine == SelectSeq(gitLog, LAMBDA c : c.repo = n)
        IN  /\ IsPrefix(ops, expected)
            /\ Synced(n) => ops = expected
            /\ (Synced(n) /\ sparseOn) =>
                  /\ ops[Len(ops)] = "sparse-checkout set"
                  /\ SubSeq(mine[Len(mine)].args, 5, Len(mine[Len(mine)].args)) = r.sparse
            /\ Len(SelectSeq(ops, LAMBDA o : o = "clone"))
                  = (IF sHadGit[n] \/ ops = << >> THEN 0 ELSE 1)
            /\ \A k \in 1..Len(mine) :
                  LET a == mine[k].args
                  IN  /\ GitOp(a) = "fetch" =>
                            /\ a[Len(a) - 1] = "origin" /\ a[Len(a)] = r.branch
                            /\ (r.depth > 0) <=> (a[4] = "--depth=" \o Itoa(r.depth))
                            /\ \A i \in 1..Len(r.filter) : \E j \in 4..Len(a) : a[j] = r.filter[i]
                      /\ GitOp(a) = "checkout" => a[Len(a)] = r.branch
                      /\ GitOp(a) = "reset" =>
                            a[Len(a) - 1] = "--hard" /\ a[Len(a)] = "origin/" \o r.branch

\* C9 witness: in one run a repository with .git and a sparse list was
\* updated and another, without .git, was cloned.
C9_Witness ==
    /\ sPc = "done" /\ sErr = NoErr
    /\ \E n \in DOMAIN sHadGit :
          /\ sHadGit[n] /\ Len(repos[n].sparse) > 0 /\ repos[n].depth > 0
          /\ OpsOf(n) = <<"fetch", "checkout", "reset", "sparse-checkout set">>
    /\ \E n \in DOMAIN sHadGit : ~sHadGit[n] /\ OpsOf(n) = <<"clone">>

\* the repositories the running synchronizer is responsible for
InMode == { n \in RepoNames : repos[n].isData = (sMode = "data") }

\* C10: synchronization is idempotent: with an unchanged remote, a run that
\* follows a successful run takes the update path for every repository,
\* changes no repository's content (the branch tip, as after the first run)
\* and fails only if a git process fails.
C10_SecondRunIdempotent ==
    /\ (sPc = "done" /\ sErr = NoErr) =>
          \A n \in InMode : disk[n].git /\ disk[n].content = RemoteTip
    /\ (sPc = "done" /\ sErr # NoErr) =>
          (gitLog # << >> /\ gitLog[Len(gitLog)].err # NoErr)
    /\ (sRun >= 2 /\ sPrev.ran /\ sPrev.err = NoErr) =>
          /\ \A n \in DOMAIN sHadGit :
                /\ sHadGit[n]
                /\ OpsOf(n) # << >> => OpsOf(n)[1] = "fetch"
                /\ \A k \in 1..Len(OpsOf(n)) : OpsOf(n)[k] # "clone"
          /\ \A n \in InMode :
                /\ disk[n].content = sPrev.disk[n].content
                /\ disk[n].content = RemoteTip

\* C10 witness: the second of two successful runs has ended, having fetched
\* every repository of its kind and left each at the tip.
C10_Witness ==
    /\ sRun = 2 /\ sPc = "done" /\ sErr = NoErr
    /\ sPrev.ran /\ sPrev.err = NoErr
    /\ DOMAIN sHadGit = InMode
    /\ \A n \in InMode : OpsOf(n)[1] = "fetch" /\ disk[n].content = RemoteTip

(***************************************************************************)
(* Claims about runExamples.                                               *)
(***************************************************************************)
\* the references that were linted and rendered successfully
Rendered == { k \in 1..Len(eTrace) : eTrace[k].did = "ok" }

\* the references that stopped the batch: unknown source, lint or render failure
Failed == { k \in 1..Len(eTrace) : eTrace[k].did \in {"unknown", "lintfail", "renderfail"} }

\* C1 (as stated): runExamples returns an overall error only if every
\* requested reference is skipped or fails: once one reference has been
\* linted and rendered, the call returns success with a mapping holding it.
C1_ErrorOnlyIfNoneRendered ==
    (ePc = "done" /\ Rendered # {}) =>
        /\ eRet.err = NoErr
        /\ \A k \in Rendered : eTrace[k].key \in DOMAIN eRet.results

\* C1 (amended): only a missing script is a soft skip.  An unknown source, a
\* lint failure or a render failure ends the call at once with that error and
\* a nil mapping, whatever was rendered before it and without looking at the
\* references after it.  Otherwise the call returns "no examples rendered"
\* if nothing was rendered, and else success with a mapping holding exactly
\* the normalized references that were rendered, each with its xml path.
C1_FailFastExceptMissingScript ==
    /\ \A k \in Failed : k = Len(eTrace) /\ ePc = "done" /\ eRet.err = eTrace[k].err
    /\ \A k \in 1..Len(eTrace) :
          /\ eTrace[k].raw = examples[k]
          \* a skip never ends the call: the loop goes on or runs out
          /\ (eTrace[k].did = "skip" /\ k = Len(eTrace) /\ ePc = "done") =>
                eI > Len(examples)
    /\ ePc = "done" =>
          /\ (eRet.err = NoErr) <=> (Failed = {} /\ Rendered # {})
          /\ eRet.err # NoErr => eRet.nil
          /\ Failed # {} => (eRet.err # "no examples rendered" /\ Len(eTrace) <= Len(examples))
          /\ (Failed = {} /\ Rendered = {}) => eRet.err = "no examples rendered"
          /\ Failed = {} => Len(eTrace) = Len(examples)
          /\ eRet.err = NoErr =>
                /\ ~eRet.nil
                /\ DOMAIN eRet.results = { eTrace[k].key : k \in Rendered }
                /\ \A k \in Rendered : eRet.results[eTrace[k].key] \in files

\* C1 witness: the first reference was rendered, the second failed to lint,
\* and the call returned the lint error with no mapping.
C1_Witness ==
    /\ ePc = "done"
    /\ Len(eTrace) = 2
    /\ eTrace[1].did = "ok"
    /\ eTrace[2].did = "lintfail"
    /\ eRet.err = "exit status 1"
    /\ eRet.nil

(***************************************************************************)
(* Claims about ensureWorkspace.                                           *)
(***************************************************************************)
\* the code repositories of the configuration
CodeRepoNames == { n \in DOMAIN repos : ~repos[n].isData }

\* C11 (as stated): after ensureWorkspace returns success, go.work holds one
\* use entry for the tool's root directory and, for every code repository,
\* one use entry that resolves to its configured directory (also when that
\* directory was moved with <NAME>_DIR), none for a data repository, and
\* nothing of the file's earlier content.
C11_UseEntriesResolveToRepoDirs ==
    (wPc = "done" /\ wErr = NoErr) =>
        /\ goWork.exists
        /\ goWork.header = GoWorkHeader
        /\ Len(goWork.uses) = 1 + Cardinality(CodeRepoNames)
        /\ { ResolveUse(goWork.uses[k]) : k \in 1..Len(goWork.uses) }
              = {WorkDir} \cup { repos[n].dir : n \in CodeRepoNames }

(***************************************************************************)
(* Claims about finalize and the root command.                             *)
(***************************************************************************)
\* a cleaned absolute path
IsAbsClean(path) ==
    /\ path.abs
    /\ \A i \in 1..Len(path.elems) : path.elems[i] \notin {".", ".."}

\* C12: after finalize returns success the directory of every configured
\* repository (data, code, fonts) is an absolute path, as are the dist and
\* fonts directories; and no subcommand body runs before finalize has
\* returned success.
C12_FinalizedDirsAbsolute ==
    /\ finPc \in {"ok", "body"} =>
          /\ finErr = NoErr
          /\ \A n \in DOMAIN dirs : IsAbsClean(dirs[n])
          /\ IsAbsClean(distDirCfg) /\ PathStr(distDirCfg) = DistDirAbs
          /\ IsAbsClean(fontsDirCfg) /\ fontsDirCfg = dirs["deckfonts"]
          \* the default directories are the ones the rest of the model uses
          /\ \A r \in ConfiguredRepos :
                dirs[r.name] = absPath(DefaultDir(r), TRUE).path => PathStr(dirs[r.name]) = r.dir
    /\ ranCmd # "" => (finPc = "body" /\ finErr = NoErr)
    /\ finPc \in {"failed", "exited"} => (ranCmd = "" /\ finErr \notin {NoErr, "unset"})
    /\ finPc \in {"failed", "exited"} => ~ENABLED RunSubcommand

\* C12 witness: a subcommand body runs with a relative override resolved
\* against the working directory, next to default directories.
C12_Witness ==
    /\ finPc = "body" /\ ranCmd = "dev-build"
    /\ dirs["deck"] = [abs |-> TRUE, elems |-> <<"forks", "deck">>]
    /\ PathStr(dirs["deckviz"]) = "/work/.data/deckviz"
    /\ lists["dubois"].sparse = <<"plate01", "plate02">>

(***************************************************************************)
(* Claims about file names.                                                *)
(***************************************************************************)
\* every binary name of the static toolchain
AllNames == { AllBins[i].name : i \in 1..Len(AllBins) }

\* C13: buildFilename gives <name>-<os>-<arch>, plus .exe exactly on
\* windows, for the native target, and <name>-wasm.wasm / <name>-wasi.wasm
\* on any host; distinct (name, target) pairs never share a file name.
C13_BuildFilenameConvention ==
    /\ host = [os |-> "linux", arch |-> "amd64"] =>
          /\ buildFilename("decksh", targetNative) = "decksh-linux-amd64"
          /\ buildFilename("gcdeck", targetNative) = "gcdeck-linux-amd64"
    /\ host = [os |-> "windows", arch |-> "amd64"] =>
          /\ buildFilename("decksh", targetNative) = "decksh-windows-amd64.exe"
          /\ buildFilename("gcdeck", targetNative) = "gcdeck-windows-amd64.exe"
    /\ buildFilename("decksh", targetWASM) = "decksh-wasm.wasm"
    /\ buildFilename("decksh", targetWASI) = "decksh-wasi.wasm"
    /\ \A n \in AllNames :
          /\ buildFilename(n, targetNative)
                = n \o "-" \o host.os \o "-" \o host.arch
                    \o (IF host.os = "windows" THEN ".exe" ELSE "")
          /\ buildFilename(n, targetWASM) = n \o "-wasm.wasm"
          /\ buildFilename(n, targetWASI) = n \o "-wasi.wasm"
    /\ \A n1, n2 \in AllNames :
          \A i1, i2 \in 1..Len(buildTargets) :
             buildFilename(n1, buildTargets[i1]) = buildFilename(n2, buildTargets[i2])
                => (n1 = n2 /\ i1 = i2)
    /\ \A k \in 1..Len(bTrace) :
          bTrace[k].wrote # "" =>
             bTrace[k].wrote = buildFilename(SpecOfCall(k).name, TargetOfCall(k))

\* C13 witness: on a windows host decksh was built for the three targets.
C13_Witness ==
    /\ host.os = "windows"
    /\ Len(bTrace) >= 3
    /\ bTrace[1].wrote = "decksh-windows-amd64.exe"
    /\ bTrace[2].wrote = "decksh-wasm.wasm"
    /\ bTrace[3].wrote = "decksh-wasi.wasm"
    /\ DOMAIN dist = {"decksh-windows-amd64.exe", "decksh-wasm.wasm", "decksh-wasi.wasm"}

\* C14 (as stated): the native naming convention is the same in build, fetch
\* and lookup: the dist path resolveBinary checks first (getBinaryPath) is
\* the path buildBinary writes and downloadReleaseBinaries downloads, so a
\* binary that is in dist under its native name is found there.
C14_LookupFindsNativeFile ==
    \A n \in AllNames :
        buildFilename(n, targetNative) \in DOMAIN dist =>
            /\ getBinaryPath(n) = Join(DistDirAbs, buildFilename(n, targetNative))
            /\ resolveBinary(n) = [path |-> Join(DistDirAbs, buildFilename(n, targetNative)),
                                   err |-> NoErr]

(***************************************************************************)
(* Claims about parseExample.                                              *)
(***************************************************************************)
\* (source, name) as strings
Parsed(raw) ==
    LET p == parseExample(raw)
    IN  <<Str(p.source), Str(p.name)>>

\* C15 (as stated): "source/name" resolves to (source, name), a reference
\* with no slash to ("deckviz", name), and an empty source before the slash
\* to the default source.
C15_SourceSlashName ==
    \A k \in 1..Len(examples) :
        LET r == TrimSpace(examples[k])
        IN  IF ContainsSlash(r)
            THEN LET parts == SplitN2(r)
                 IN  Parsed(examples[k])
                        = << IF parts[1] = << >> THEN "deckviz" ELSE Str(parts[1]),
                             Str(TrimSpace(parts[2])) >>
            ELSE Parsed(examples[k]) = <<"deckviz", Str(r)>>

\* C15 (amended): after trimming, a leading ".data/" is stripped; a reference
\* with no slash yields ("deckviz", name); otherwise it is split at the first
\* slash, and the first segment is replaced by the logical name of the
\* repository whose directory ends in it (dubois-data-portraits -> dubois),
\* becomes "deckviz" if empty, and is used as written otherwise.
C15_SourceMappedFromDirectory ==
    /\ \A k \in 1..Len(examples) :
        LET raw == examples[k]
            got == Parsed(raw)
        IN  /\ raw = <<"fire">> => got = <<"deckviz", "fire">>
            /\ raw = <<"deckviz", "/", "fire">> => got = <<"deckviz", "fire">>
            /\ raw = <<"/", "fire">> => got = <<"deckviz", "fire">>
            /\ raw = <<"dubois", "/", "plate01">> => got = <<"dubois", "plate01">>
            /\ raw = <<"dubois-data-portraits", "/", "plate01">> => got = <<"dubois", "plate01">>
            /\ raw = <<dataDir, "/", "dubois-data-portraits", "/", "plate01">>
                  => got = <<"dubois", "plate01">>
            /\ raw = <<" ", "deckviz", "/", "go", " ">> => got = <<"deckviz", "go">>
            /\ raw = <<"nosuch", "/", "x">> => got = <<"nosuch", "x">>
            /\ ~ContainsSlash(TrimSpace(raw)) => got = <<"deckviz", Str(TrimSpace(raw))>>
    \* the reference being linted or rendered was resolved that way
    /\ ePc \in {"lint", "render"} =>
          <<eCur.source, eCur.name>> = Parsed(examples[eI])

\* C15 witness: a reference that names the repository by its directory was
\* resolved to the logical source and its script is being linted.
C15_Witness ==
    /\ ePc = "lint"
    /\ examples[eI] = <<dataDir, "/", "dubois-data-portraits", "/", "plate01">>
    /\ eCur = [source |-> "dubois", name |-> "plate01",
               dir |-> "/work/.data/dubois-data-portraits/plate01"]

(***************************************************************************)
(* Claims about dev-build, dev-release and createGithubRelease.            *)
(***************************************************************************)
\* the k-th pair of the matrix failed for a reason other than an unsupported
\* target: buildBinary passed the capability check and returned an error
FailedPair(k) ==
    results[k].err # NoErr /\ Supported(SpecOfCall(k), TargetOfCall(k))

\* the positions of relLog at which gh release create was issued
Creates == { i \in 1..Len(relLog) : relLog[i].cmd = "gh release create" }

\* C16 (as stated): in dev-release without --skip-build, once the matrix holds
\* a pair that failed for a reason other than an unsupported target, no gh
\* command is ever run and the command returns an error; unsupported pairs
\* alone never make the command return the build error.
C16_FailedBuildBlocksRelease ==
    (dCmd = "dev-release" /\ ~dFlags.skipBuild /\ bPc = "done")
      => /\ (\E k \in 1..Len(results) : FailedPair(k))
                => /\ relLog = << >>
                   /\ dPc \in {"build", "done"}
                   /\ dPc = "done" => dErr = "some builds failed, cannot create release"
         /\ dErr = "some builds failed, cannot create release"
                => \E k \in 1..Len(results) : FailedPair(k)

\* C17: when dev-build has printed its summary, the three counts add up to
\* the number of (binary, target) pairs, every unsupported pair is among the
\* skipped and none among the failed, and the command returned an error
\* exactly if the failed count is greater than zero.
C17_SummaryPartitionsResults ==
    (dCmd = "dev-build" /\ dPc = "done" /\ bPc = "done")
      => LET pairs == 1..(Len(toolchain) * Len(buildTargets))
             unsupported == { k \in pairs : ~Supported(SpecOfCall(k), TargetOfCall(k)) }
         IN  /\ Len(results) = Cardinality(pairs)
             /\ dCounts.succeeded + dCounts.failed + dCounts.skipped = Cardinality(pairs)
             /\ dCounts.succeeded = Cardinality({ k \in pairs : results[k].err = NoErr })
             /\ \A k \in unsupported : classify(results[k]) = "skipped"
             /\ dCounts.skipped >= Cardinality(unsupported)
             /\ dCounts.failed <= Cardinality(pairs \ unsupported) - dCounts.succeeded
             /\ (dErr # NoErr) <=> (dCounts.failed > 0)

\* dev-build printed a summary with a success, a failure and a skip, and
\* returned the error
C17_Witness ==
    /\ dCmd = "dev-build"
    /\ dPc = "done"
    /\ bPc = "done"
    /\ dCounts.succeeded > 0
    /\ dCounts.failed > 0
    /\ dCounts.skipped > 0
    /\ dErr = "some builds failed"

VersionRests == { Format(t) : t \in 1..MaxTime } \cup {"test1"}

\* strings.HasPrefix(v, "dev-")
BeginsWithDev(v) == \E rest \in VersionRests : v = "dev-" \o rest

\* C19 (as stated): every release dev-release creates under a version that
\* begins with "dev-", generated or given with --version, is created with
\* the prerelease marking.
C19_DevVersionsArePrereleases ==
    \A i \in Creates : BeginsWithDev(relLog[i].version) => relLog[i].prerelease

\* the session is authenticated before position i of relLog
AuthenticatedBefore(i) ==
    \E j \in 1..(i - 1) :
        /\ relLog[j].cmd \in {"gh auth status", "gh auth login"}
        /\ relLog[j].ok

\* C20: in createGithubRelease the release-create command is issued only
\* after `gh auth status` or, that failing, `gh auth login` succeeded, and
\* only with a non-empty list of files; when the login failed or the dist
\* directory holds no file, the function returns an error and no release is
\* created.
C20_CreateOnlyAuthenticatedWithFiles ==
    dVariant = "helper" =>
        /\ \A i \in Creates :
              /\ AuthenticatedBefore(i)
              /\ relLog[i].files # {}
              /\ relLog[i].files = GlobDist
        /\ \A j \in 1..Len(relLog) :
              (relLog[j].cmd = "gh auth login" /\ ~relLog[j].ok)
                  => Creates = {} /\ dPc = "done" /\ dErr # NoErr
        /\ \A j \in 1..Len(relLog) :
              relLog[j].cmd = "gh auth login"
                  => j > 1 /\ relLog[j - 1].cmd = "gh auth status" /\ ~relLog[j - 1].ok
        /\ (dCmd = "dev-release" /\ GlobDist = {})
              => Creates = {} /\ (dPc = "done" => dErr # NoErr)

\* createGithubRelease created a release after `gh auth status` failed and
\* the login succeeded
C20_Witness ==
    /\ dVariant = "helper"
    /\ dPc = "done"
    /\ dErr = NoErr
    /\ \E i \in Creates :
          /\ relLog[i].ok
          /\ relLog[i].files # {}
          /\ \E j \in 1..(i - 1) : relLog[j].cmd = "gh auth status" /\ ~relLog[j].ok
          /\ relLog[i - 1].cmd = "gh auth login" /\ relLog[i - 1].ok


(***************************************************************************)
(* Further claims about downloadReleaseBinaries and ensureGhCli.           *)
(***************************************************************************)
\* `gh release list` exited with status 0 and printed nothing
ListedNothing == listOut.ran /\ listOut.out = << >> /\ ghLog # << >> /\
                 ghLog[Len(ghLog)].cmd = "gh release list" /\ ghLog[Len(ghLog)].ok

\* C29 (as stated): when the release listing succeeds with an empty output,
\* downloadReleaseBinaries returns the "no releases found" error and issues
\* no view or download command.
C29_EmptyListingNoReleasesFound ==
    (fPc = "done" /\ ListedNothing)
        => /\ fErr = "no releases found"
           /\ \A i \in 1..Len(ghLog) :
                 ghLog[i].cmd \notin {"gh release view", "gh release download"}


\* error messages of the model that tell the user how to install gh
InstallHints == {"gh CLI not found. Install it with: brew install gh"}

\* the step in which the fetch path / the publish path runs ensureGhCli
FetchEnsuresGh == fPc = "idle" /\ fPc' # "idle"
DevEnsuresGh == dPc = "ghcli" /\ dPc' # "ghcli"

Getenv(e) == IF e.set THEN e.val ELSE ""

\* C24: every lint and render child of runExamples sees DECKFONTS set to the
\* configured fonts directory, and on every return of runExamples the
\* variable reads what it read before the call.
C24_DeckfontsScopedToCall ==
    /\ \A i \in 1..Len(eLog) : eLog[i].deckfonts = [set |-> TRUE, val |-> FontsDirAbs]
    /\ ePc \in {"loop", "lint", "render"} => Getenv(env) = FontsDirAbs
    /\ ePc = "done" => Getenv(env) = eOld

\* runExamples returned the error of a failed child, which had seen the
\* fonts directory, and DECKFONTS reads its earlier value again
C24_Witness ==
    /\ ePc = "done"
    /\ eRet.err = "exit status 1"
    /\ eLog # << >>
    /\ eOld = "/opt/fonts"
    /\ env = [set |-> TRUE, val |-> "/opt/fonts"]


\* the tools runExamples resolves
ResolvedTools == {"dshlint", "decksh"}

\* the error resolveBinary returns for a tool it finds nowhere
NotFound(tool) == tool \o " not found in " \o DistDirAbs \o ", PATH, or " \o GoBinDir

\* C25: the path a child was started from is the tool's platform-specific
\* file in dist if that file exists, else the tool on PATH if it is there,
\* else the tool in the GOBIN directory; the "not found" error is returned
\* only for a tool that is in none of the three.
C25_ResolveOrderDistPathGobin ==
    /\ \A i \in 1..Len(eLog) :
          LET tool == eLog[i].tool
          IN  IF StatDist(getBinaryPath(tool))
              THEN eLog[i].path = getBinaryPath(tool)
              ELSE IF tool \in onPath
              THEN eLog[i].path = Join("/usr/bin", tool)
              ELSE tool \in inGoBin /\ eLog[i].path = getGoBinPath(tool)
    /\ \A k \in 1..Len(eTrace), tool \in ResolvedTools :
          eTrace[k].err = NotFound(tool)
              => /\ ~StatDist(getBinaryPath(tool))
                 /\ tool \notin onPath
                 /\ tool \notin inGoBin
    /\ \A tool \in ResolvedTools :
          (~StatDist(getBinaryPath(tool)) /\ tool \notin onPath /\ tool \notin inGoBin)
              => \A i \in 1..Len(eLog) : eLog[i].tool # tool

\* decksh is in dist, on PATH and in GOBIN, and the child was started from
\* the dist file
C25_Witness ==
    /\ StatDist(getBinaryPath("decksh"))
    /\ "decksh" \in onPath
    /\ "decksh" \in inGoBin
    /\ \E i \in 1..Len(eLog) :
          eLog[i].tool = "decksh" /\ eLog[i].path = getBinaryPath("decksh")


(***************************************************************************)
(* Claims about normalizeExampleName.                                      *)
(***************************************************************************)
\* C28 (as stated): for every raw reference, parseExample of the normalized
\* reference equals parseExample of the reference, and normalizing twice
\* gives the same string as normalizing once.
C28_NormalizeIsCanonical ==
    /\ \A k \in 1..(Len(examples) - 1) :
          /\ Str(examples[k + 1]) = normalizeExampleName(examples[k])
          /\ Parsed(examples[k + 1]) = Parsed(examples[k])
    /\ Len(examples) = 3 => Str(examples[3]) = Str(examples[2])


(***************************************************************************)
(* Claims about the examples command.                                      *)
(***************************************************************************)
\* the resolver of run and view on a printed reference
Resolved(ref) ==
    LET p == Parsed(ref)
    IN  getExampleDir(p[1], p[2])

\* C27 (as stated): every reference the examples command printed is
\* accepted by getExampleDir(parseExample(ref)): it returns a directory and
\* not the "unknown example source" error.
C27_ListedReferencesResolve ==
    \A k \in 1..Len(listed) : Resolved(listed[k]).err = NoErr


(***************************************************************************)
(* Claims about the ensure command.                                        *)
(***************************************************************************)
\* C21 (as stated): whenever the ensure command returns success, the native
\* file of every binary of the toolchain is present in the dist directory.
C21_EnsureSuccessAllBinariesPresent ==
    (cCmd = "ensure" /\ cPc = "done" /\ cErr = NoErr) =>
        distExists /\ NativeFiles \subseteq DOMAIN dist


(***************************************************************************)
(* Claims about dev-clean.                                                 *)
(***************************************************************************)
\* C23 (as stated): after dev-clean returned success none of the cache
\* directories exists and no configured repository's directory exists (one
\* moved with <NAME>_DIR included); a folder that was absent was skipped
\* without error.
C23_CleanRemovesCachesAndRepoDirs ==
    (cCmd = "dev-clean" /\ cPc = "done" /\ cErr = NoErr) =>
        /\ present \cap CacheDirs = {}
        /\ \A n \in DOMAIN repos : repos[n].dir \notin present
        /\ \A x \in cLog : x.did # "failed"


(***************************************************************************)
(* Claims about ensureShellSnippet.                                        *)
(***************************************************************************)
\* every call so far returned nil, and there was one
OnlySuccessfulCalls == rcCalls >= 1 /\ rcOk = rcCalls

\* C30 (as stated): after any number of successful calls the rc file holds
\* the snippet exactly once and what it held before the first call is
\* still there, unchanged, ahead of it.
C30_SnippetExactlyOnce ==
    OnlySuccessfulCalls =>
        /\ rcFile.exists
        /\ Cardinality(Occurrences(rcFile.data)) = 1
        /\ IsPrefix(rcOrig.data, rcFile.data)

\* C30 (amended): after any number of successful calls the rc file is what
\* it was before the first call if that held the snippet, and otherwise that
\* followed by one copy of the snippet; so it holds the snippet at least
\* once, and a further call does not change it.
C30_SnippetAppendedAtMostOnce ==
    OnlySuccessfulCalls =>
        /\ rcFile.exists
        /\ rcFile.data = IF Contains(rcOrig.data) THEN rcOrig.data
                         ELSE rcOrig.data \o Snippet
        /\ Occurrences(rcFile.data) # {}
        /\ IsPrefix(rcOrig.data, rcFile.data)

\* two successful calls on a file that held other text and not the snippet
C30_Witness ==
    /\ rcCalls = 2
    /\ rcOk = 2
    /\ rcOrig.exists
    /\ rcOrig.data # << >>
    /\ ~Contains(rcOrig.data)
    /\ rcFile.data = rcOrig.data \o Snippet


====
